---- MODULE Spec2Model ----
(***************************************************************************)
(* A model of dotctl (src/main.go, the symlink-based revision at lines     *)
(* 990-2759): package eligibility, the configuration store, the template   *)
(* expander, the package scanner, the deployment resolver and the git sync *)
(* controller.  Each component has its own specification over its own      *)
(* variables; the variables of the other components stay at their idle     *)
(* values.                                                                 *)
(***************************************************************************)
EXTENDS Integers, Sequences, FiniteSets, TLC

VARIABLES
    system,         \* dm.System, the detected system tag
    \* ---- eligibility (shouldDeployPackage, matchesCondition) ----
    packageConfig,  \* the decoded configuration value of one package entry
    deployable,     \* the value shouldDeployPackage returned
    eligPc,         \* "input" before the call, "done" after
    blockCondition, \* the condition word of a template block
    matched,        \* the value matchesCondition returned
    condPc,         \* "input" before the call, "done" after
    \* ---- template expander (processTemplateContent) ----
    template,       \* the template as a sequence of indices into Catalogue
    expanded,       \* the string processTemplateContent returned
    tmplPc,         \* "input" before the call, "done" after
    \* ---- configuration store (loadConfig, saveConfig, addPackage) ----
    yamlFile,       \* <root>/dotctl.yaml on disk
    jsonFile,       \* <root>/dotctl.json on disk
    ConfigFile,     \* dm.ConfigFile: "yaml" or "json"
    Config,         \* dm.Config, the configuration in memory
    cfgPc,          \* "exited": no process; "loaded": NewDotfilesManager returned
    lastCmd,        \* the command the last process ran, and whether it succeeded
    loadLog,        \* what the last loadConfig did
    \* ---- package scanner (scanPackages) ----
    rootKind,       \* what is at dm.DotfilesDir: "absent", "dir" or "file"
    rootEntries,    \* the entries of the directory: name -> "absent", "dir", "file"
    scanResult,     \* the packages scanPackages returned
    scanErr,        \* whether scanPackages returned an error
    scanPc,         \* "input" before the call, "done" after
    \* ---- deployment (deployPackage, undeployPackage) ----
    fs,             \* the file system
    fsBefore,       \* the file system before the last command
    deployConfig,   \* dm.Config.Packages of the deploying processes
    lastOp,         \* the last command: op, pkg, dryRun, ok
    prevOp,         \* the command before it
    opCount,        \* commands run so far
    \* ---- sync (syncToGitHub) ----
    repo,           \* the git repository under the dotfiles root
    repoAtStart,    \* the repository when the sync command started
    gh,             \* the GitHub precondition that fails, or "ok"
    sync            \* the running syncToGitHub: position, locals, commands run, outcome

eligVars == <<packageConfig, deployable, eligPc, blockCondition, matched, condPc>>
tmplVars == <<template, expanded, tmplPc>>
cfgVars == <<yamlFile, jsonFile, ConfigFile, Config, cfgPc, lastCmd, loadLog>>
scanVars == <<rootKind, rootEntries, scanResult, scanErr, scanPc>>
deployVars == <<fs, fsBefore, deployConfig, lastOp, prevOp, opCount>>
syncVars == <<repo, repoAtStart, gh, sync>>
vars == <<system, eligVars, tmplVars, cfgVars, scanVars, deployVars, syncVars>>

----------------------------------------------------------------------------
(* Bounds of the model *)

\* longest systems list of a structured package entry
MaxSystems == 2
\* longest template, in lines
MaxLines == 4
\* most system tags given to one add command
MaxTags == 2

----------------------------------------------------------------------------
(* System tags *)

\* the tags detectSystem can return: "macos", a distribution, "linux", or the
\* raw platform name ("freebsd" stands for every other runtime.GOOS)
DetectedSystems == {"macos", "arch", "ubuntu", "debian", "fedora", "linux", "freebsd"}

\* the tags a configuration can name
ConfigTags == {"all", "linux", "macos", "arch", "ubuntu"}

----------------------------------------------------------------------------
(* Configuration values as the YAML/JSON decoders produce them             *)
(* (interface{} values): a string, a map[string]interface{}, a            *)
(* []interface{}, a number.  StringSlice is the []string that addPackage  *)
(* stores in memory.                                                       *)

String(s) == [kind |-> "string", val |-> s]
Number(n) == [kind |-> "number", num |-> n]
Bool(b) == [kind |-> "bool", b |-> b]
IfaceSlice(elems) == [kind |-> "[]interface{}", elems |-> elems]
StringSlice(elems) == [kind |-> "[]string", elems |-> elems]
\* a map value is a function from its keys to values
Map(fields) == [kind |-> "map", fields |-> fields]

NoFields == [k \in {} |-> String("")]
SystemsField(v) == [k \in {"systems"} |-> v]

SeqsUpTo(S, n) == UNION {[1..k -> S] : k \in 0..n}
Range(f) == {f[x] : x \in DOMAIN f}

\* elements a decoded systems list can hold: tags, and a non-string
ListElems == {String(t) : t \in ConfigTags} \cup {Number(1)}

\* the package entries a configuration file can decode to
DecodedEntries ==
    {String(t) : t \in ConfigTags \cup {"debian"}}
    \cup {Map(NoFields)}
    \cup {Map(SystemsField(IfaceSlice(l))) : l \in SeqsUpTo(ListElems, MaxSystems)}
    \cup {Map(SystemsField(String(t))) : t \in {"all", "arch"}}
    \cup {Number(1)}

\* src/main.go:1276 shouldDeployPackage, with the family tag "linux" matching
\* every distribution
shouldDeployPackageFamily(config, sys) ==
    LET Matches(t) == t = "all" \/ t = sys
                      \/ (t = "linux" /\ sys \in {"arch", "ubuntu", "debian", "fedora"})
    IN  CASE config.kind = "string" -> Matches(config.val)
          [] config.kind = "map" ->
                IF "systems" \notin DOMAIN config.fields THEN TRUE
                ELSE LET s == config.fields["systems"]
                     IN  IF s.kind # "[]interface{}" THEN FALSE
                         ELSE \E i \in 1..Len(s.elems) :
                                 /\ s.elems[i].kind = "string"
                                 /\ Matches(s.elems[i].val)
          [] OTHER -> FALSE

\* src/main.go:1276 shouldDeployPackage
shouldDeployPackage(config, sys) ==
    CASE config.kind = "string" -> config.val = "all" \/ config.val = sys
      [] config.kind = "map" ->
            IF "systems" \notin DOMAIN config.fields THEN TRUE
            ELSE LET s == config.fields["systems"]
                 IN  IF s.kind # "[]interface{}" THEN FALSE
                     ELSE \E i \in 1..Len(s.elems) :
                             /\ s.elems[i].kind = "string"
                             /\ (s.elems[i].val = "all" \/ s.elems[i].val = sys)
      [] OTHER -> FALSE

\* the condition words of template blocks
Conditions == DetectedSystems \cup {"all"}

EligIdle ==
    /\ packageConfig = Number(0)
    /\ deployable = FALSE
    /\ eligPc = "idle"
    /\ blockCondition = "all"
    /\ matched = FALSE
    /\ condPc = "idle"

EligInit ==
    /\ packageConfig \in DecodedEntries
    /\ deployable = FALSE
    /\ eligPc = "input"
    /\ blockCondition \in Conditions
    /\ matched = FALSE
    /\ condPc = "input"

\* one call of shouldDeployPackage(packageConfig, dm.System), as
\* getPackagesForSystem makes for every entry (src/main.go:1266)
CheckEligibility ==
    /\ eligPc = "input"
    /\ deployable' = shouldDeployPackage(packageConfig, system)
    /\ eligPc' = "done"
    /\ UNCHANGED <<system, packageConfig, blockCondition, matched, condPc, tmplVars, cfgVars, scanVars, deployVars, syncVars>>

----------------------------------------------------------------------------
(* Template expander.  A string is a sequence of one-character strings.    *)

NL == "\n"

\* the characters of the tags and condition words
Chars ==
    [s \in DetectedSystems \cup {"all"} |->
        CASE s = "macos"   -> <<"m", "a", "c", "o", "s">>
          [] s = "arch"    -> <<"a", "r", "c", "h">>
          [] s = "ubuntu"  -> <<"u", "b", "u", "n", "t", "u">>
          [] s = "debian"  -> <<"d", "e", "b", "i", "a", "n">>
          [] s = "fedora"  -> <<"f", "e", "d", "o", "r", "a">>
          [] s = "linux"   -> <<"l", "i", "n", "u", "x">>
          [] s = "freebsd" -> <<"f", "r", "e", "e", "b", "s", "d">>
          [] s = "all"     -> <<"a", "l", "l">>]

OpenPrefix == <<"{", "{", "#", "i", "f", " ">>
CloseBraces == <<"}", "}">>
EndMarker == <<"{", "{", "/", "i", "f", "}", "}">>

\* the lines templates are built from, each with what it is in the template
\* syntax of README.md:259-284: an open marker with its condition, a close
\* marker, or text
Catalogue == <<
    [text |-> <<" ", "b">>, kind |-> "text", cond |-> ""],
    [text |-> <<>>, kind |-> "text", cond |-> ""],
    [text |-> OpenPrefix \o Chars["arch"] \o CloseBraces, kind |-> "open", cond |-> "arch"],
    [text |-> <<" ">> \o OpenPrefix \o <<" ">> \o Chars["linux"] \o <<" ">> \o CloseBraces,
        kind |-> "open", cond |-> "linux"],
    [text |-> EndMarker, kind |-> "close", cond |-> ""],
    [text |-> <<" ">> \o EndMarker \o <<" ">>, kind |-> "close", cond |-> ""],
    [text |-> OpenPrefix \o Chars["arch"] \o <<"}">>, kind |-> "text", cond |-> ""]
>>

\* strings.Join(lines, "\n")
RECURSIVE Join(_)
Join(lines) ==
    IF Len(lines) = 0 THEN <<>>
    ELSE IF Len(lines) = 1 THEN lines[1]
    ELSE lines[1] \o <<NL>> \o Join(Tail(lines))

\* strings.Split(s, "\n"): always at least one piece
RECURSIVE Split(_)
Split(s) ==
    IF \A i \in 1..Len(s) : s[i] # NL THEN <<s>>
    ELSE LET i == CHOOSE k \in 1..Len(s) : s[k] = NL /\ \A j \in 1..(k - 1) : s[j] # NL
         IN  <<SubSeq(s, 1, i - 1)>> \o Split(SubSeq(s, i + 1, Len(s)))

IsSpace(c) == c \in {" ", "\t", "\r", NL}

\* strings.TrimSpace
RECURSIVE TrimLeft(_)
TrimLeft(s) == IF Len(s) > 0 /\ IsSpace(s[1]) THEN TrimLeft(Tail(s)) ELSE s
RECURSIVE TrimRight(_)
TrimRight(s) ==
    IF Len(s) > 0 /\ IsSpace(s[Len(s)]) THEN TrimRight(SubSeq(s, 1, Len(s) - 1)) ELSE s
TrimSpace(s) == TrimLeft(TrimRight(s))

HasPrefix(s, p) == Len(s) >= Len(p) /\ SubSeq(s, 1, Len(p)) = p
HasSuffix(s, p) == Len(s) >= Len(p) /\ SubSeq(s, Len(s) - Len(p) + 1, Len(s)) = p

\* src/main.go:1941 matchesCondition with every condition compared exactly
matchesConditionExact(condition, sys) == Chars[sys] = condition

\* src/main.go:1941 matchesCondition; condition is the extracted string
matchesCondition(condition, sys) ==
    CASE condition = Chars["macos"] -> sys = "macos"
      [] condition = Chars["linux"] ->
            sys = "arch" \/ sys = "ubuntu" \/ sys = "debian" \/ sys = "fedora" \/ sys = "linux"
      [] condition = Chars["arch"] -> sys = "arch"
      [] condition = Chars["ubuntu"] -> sys = "ubuntu"
      [] condition = Chars["debian"] -> sys = "debian"
      [] condition = Chars["fedora"] -> sys = "fedora"
      [] OTHER -> Chars[sys] = condition

\* the loop of processTemplateContent (src/main.go:1914-1936) over lines
\* i..Len(lines), with the skipBlock flag and the result so far
RECURSIVE TemplateLoop(_, _, _, _, _)
TemplateLoop(lines, i, skipBlock, result, sys) ==
    IF i > Len(lines) THEN result
    ELSE LET line == lines[i]
             trimmed == TrimSpace(line)
         IN  IF HasPrefix(trimmed, OpenPrefix) /\ HasSuffix(trimmed, CloseBraces)
             THEN LET condition == TrimSpace(SubSeq(trimmed, 7, Len(trimmed) - 2))
                  IN  TemplateLoop(lines, i + 1, ~matchesCondition(condition, sys), result, sys)
             ELSE IF trimmed = EndMarker
             THEN TemplateLoop(lines, i + 1, FALSE, result, sys)
             ELSE IF ~skipBlock
             THEN TemplateLoop(lines, i + 1, skipBlock, Append(result, line), sys)
             ELSE TemplateLoop(lines, i + 1, skipBlock, result, sys)

\* src/main.go:1908 processTemplateContent, appending the trimmed line
\* instead of the line
processTemplateContentTrimmed(content, sys) ==
    LET lines == Split(content)
    IN  Join(TemplateLoop([i \in 1..Len(lines) |-> TrimSpace(lines[i])], 1, FALSE, <<>>, sys))

\* src/main.go:1908 processTemplateContent
processTemplateContent(content, sys) ==
    Join(TemplateLoop(Split(content), 1, FALSE, <<>>, sys))

\* the text of a template
Content(t) == Join([i \in 1..Len(t) |-> Catalogue[t[i]].text])

TmplIdle ==
    /\ template = <<>>
    /\ expanded = <<>>
    /\ tmplPc = "idle"

TmplInit ==
    /\ template \in SeqsUpTo(1..Len(Catalogue), MaxLines)
    /\ expanded = <<>>
    /\ tmplPc = "input"

\* one call of processTemplateContent on the template's text
\* (processTemplate, src/main.go:1898)
ExpandTemplate ==
    /\ tmplPc = "input"
    /\ expanded' = processTemplateContent(Content(template), system)
    /\ tmplPc' = "done"
    /\ UNCHANGED <<system, template, eligVars, cfgVars, scanVars, deployVars, syncVars>>

\* one call of matchesCondition(condition), as processTemplateContent makes
\* for every open marker (src/main.go:1923)
CheckCondition ==
    /\ condPc = "input"
    /\ matched' = matchesCondition(Chars[blockCondition], system)
    /\ condPc' = "done"
    /\ UNCHANGED <<system, packageConfig, deployable, eligPc, blockCondition, tmplVars, cfgVars, scanVars, deployVars, syncVars>>

----------------------------------------------------------------------------
(* Configuration store.  A configuration file is absent, unparsable, or    *)
(* holds a document; a document is a tree of YAML/JSON nodes.  Marshal and *)
(* Unmarshal convert between the values in memory and the nodes on disk.   *)

PackageNames == {"vim", "tmux"}

Absent == [st |-> "absent"]
Corrupt == [st |-> "corrupt"]
\* a key the document does not have
NoNode == [y |-> "none"]
\* a document with its packages, global_excludes and github keys
DocWith(packages, excludes, github) ==
    [st |-> "doc", packages |-> packages, excludes |-> excludes, github |-> github]
\* a document with a packages key only
Doc(packages) == DocWith(packages, NoNode, NoNode)

YStr(s) == [y |-> "str", val |-> s]
YNum(n) == [y |-> "num", num |-> n]
YSeq(elems) == [y |-> "seq", elems |-> elems]
YMapping(fields) == [y |-> "map", fields |-> fields]
YGitHub(repository, branch) ==
    [y |-> "github", repository |-> repository, branch |-> branch]

\* yaml.Marshal of one value (src/main.go:1203): a []string and a
\* []interface{} of strings both become a sequence of string scalars
RECURSIVE Marshal(_)
Marshal(v) ==
    CASE v.kind = "string" -> YStr(v.val)
      [] v.kind = "number" -> YNum(v.num)
      [] v.kind = "[]string" -> YSeq([i \in 1..Len(v.elems) |-> YStr(v.elems[i])])
      [] v.kind = "[]interface{}" -> YSeq([i \in 1..Len(v.elems) |-> Marshal(v.elems[i])])
      [] v.kind = "map" -> YMapping([k \in DOMAIN v.fields |-> Marshal(v.fields[k])])

\* yaml.Unmarshal / json.Unmarshal of one node into interface{}
\* (src/main.go:1147, 1154): every sequence becomes a []interface{}
RECURSIVE Unmarshal(_)
Unmarshal(n) ==
    CASE n.y = "str" -> String(n.val)
      [] n.y = "num" -> Number(n.num)
      [] n.y = "seq" -> IfaceSlice([i \in 1..Len(n.elems) |-> Unmarshal(n.elems[i])])
      [] n.y = "map" -> Map([k \in DOMAIN n.fields |-> Unmarshal(n.fields[k])])

\* the packages of a configuration, written out and read back
MarshalPackages(pk) == [k \in DOMAIN pk |-> Marshal(pk[k])]
UnmarshalPackages(pk) == [k \in DOMAIN pk |-> Unmarshal(pk[k])]

\* make(map[string]interface{})
EmptyPackages == [k \in {} |-> String("")]

\* a []string field of Config: nil, or a slice
NilSlice == [nil |-> TRUE, elems |-> <<>>]
Slice(elems) == [nil |-> FALSE, elems |-> elems]

\* the *GitHubConfig field of Config (src/main.go:1012-1015): nil, or a
\* descriptor
NoGitHub == [nil |-> TRUE, Repository |-> "", Branch |-> ""]
GitHub(repository, branch) ==
    [nil |-> FALSE, Repository |-> repository, Branch |-> branch]

DefaultExcludes == <<".git", ".DS_Store", "*.pyc", "__pycache__">>

\* src/main.go:1124 defaultConfig (StowOptions is no longer used by any
\* command and is left out of Config)
defaultConfig ==
    [Packages |-> EmptyPackages, GlobalExcludes |-> Slice(DefaultExcludes),
     GitHub |-> NoGitHub]

\* yaml.Marshal(dm.Config) (src/main.go:1203): packages and global_excludes
\* are always written, a nil slice as an empty sequence; github is omitted
\* when the pointer is nil
MarshalConfig(config) ==
    DocWith(MarshalPackages(config.Packages),
            YSeq([i \in 1..Len(config.GlobalExcludes.elems) |->
                     YStr(config.GlobalExcludes.elems[i])]),
            IF config.GitHub.nil THEN NoNode
            ELSE YGitHub(config.GitHub.Repository, config.GitHub.Branch))

\* yaml.Unmarshal / json.Unmarshal of a document into a Config, of the
\* packages only (the other keys are not read)
DecodedPackagesOnly(file) ==
    [Packages |-> UnmarshalPackages(file.packages), GlobalExcludes |-> NilSlice,
     GitHub |-> NoGitHub]

\* yaml.Unmarshal / json.Unmarshal of a document into a Config
\* (src/main.go:1141-1158): a key the document does not have leaves the field
\* nil
Decoded(file) ==
    [Packages |-> UnmarshalPackages(file.packages),
     GlobalExcludes |->
        IF file.excludes = NoNode THEN NilSlice
        ELSE Slice([i \in 1..Len(file.excludes.elems) |-> file.excludes.elems[i].val]),
     GitHub |->
        IF file.github = NoNode THEN NoGitHub
        ELSE GitHub(file.github.repository, file.github.branch)]

\* src/main.go:2357 isSimpleSystem
isSimpleSystem(sys) ==
    sys \in {"all", "linux", "macos", "arch", "ubuntu", "debian", "fedora"}

\* what os.WriteFile can do to the file it writes (src/main.go:1216): write it,
\* fail before touching it, or fail after truncating it
WriteOutcomes == {"ok", "failed", "partial"}

\* a saveConfig that never writes
SavedNothing(config, outcome) == yamlFile

\* src/main.go:1187 saveConfig: the YAML file after writing config
SavedFile(config, outcome) ==
    CASE outcome = "ok" -> MarshalConfig(config)
      [] outcome = "failed" -> yamlFile
      [] outcome = "partial" -> Corrupt

\* src/main.go:1061-1068: the configuration file NewDotfilesManager picks
PickConfigFile ==
    IF yamlFile.st = "absent" /\ jsonFile.st # "absent" THEN "json" ELSE "yaml"

\* the document of a parsable file decoded into a Config, with the defaults
\* merged in (src/main.go:1141-1178)
Parsed(file) ==
    LET config == Decoded(file)
    IN  [config EXCEPT !.GlobalExcludes =
            IF config.GlobalExcludes.nil THEN Slice(DefaultExcludes) ELSE @]

\* a command of main (src/main.go:2556-2759): its name, its package
\* argument, its other arguments, --dry-run, and whether it returned no error
Command(op, pkg, tags, dryRun, ok) ==
    [op |-> op, pkg |-> pkg, tags |-> tags, dryRun |-> dryRun, ok |-> ok]
\* loadConfig of a file that is not migrated (src/main.go:1130-1150,
\* 1169-1184): the default when it is absent or does not parse
LoadFile(file) == IF file.st = "doc" THEN Parsed(file) ELSE defaultConfig

NoCmd == Command("none", "", <<>>, FALSE, TRUE)

\* what the last loadConfig did: how many times it was entered, whether the
\* file it read failed to parse, whether it migrated ("none", "saved",
\* "failed") and whether the JSON file was removed
NoLoad == [calls |-> 0, parseError |-> FALSE, migration |-> "none", removed |-> FALSE]
Loaded(calls, parseError, migration, removed) ==
    [calls |-> calls, parseError |-> parseError, migration |-> migration,
     removed |-> removed]

\* the documents a configuration file can hold when the model starts
InitialDocuments ==
    { Doc([k \in {} |-> YStr("")]),
      Doc([k \in {"vim"} |-> YStr("all")]),
      Doc([k \in {"vim", "tmux"} |->
              IF k = "tmux" THEN YStr("macos")
              ELSE YMapping([f \in {"systems"} |-> YSeq(<<YStr("arch")>>)])]),
      DocWith([k \in {"tmux"} |-> YStr("arch")], YSeq(<<YStr(".git")>>),
              YGitHub("me/dots", "dev")) }

\* the documents a legacy JSON file can hold when the model starts
LegacyDocuments ==
    { Doc([k \in {"vim"} |-> YStr("all")]),
      DocWith([k \in {"tmux"} |-> YStr("arch")], YSeq(<<YStr(".git")>>),
              YGitHub("me/dots", "dev")) }

CfgIdle ==
    /\ yamlFile = Absent
    /\ jsonFile = Absent
    /\ ConfigFile = "yaml"
    /\ Config = defaultConfig
    /\ cfgPc = "idle"
    /\ lastCmd = NoCmd
    /\ loadLog = NoLoad

CfgInit ==
    /\ yamlFile \in {Absent, Corrupt} \cup InitialDocuments
    /\ jsonFile \in {Absent, Corrupt} \cup LegacyDocuments
    /\ ConfigFile = "yaml"
    /\ Config = defaultConfig
    /\ cfgPc = "exited"
    /\ lastCmd = NoCmd
    /\ loadLog = NoLoad

\* NewDotfilesManager (src/main.go:1031-1083) with loadConfig
\* (src/main.go:1118-1185) and migrateJSONToYAML (src/main.go:1220-1243):
\* a process starts and loads the configuration
Startup(saveOutcome, removeOk) ==
    /\ cfgPc = "exited"
    /\ cfgPc' = "loaded"
    /\ UNCHANGED <<lastCmd, system, eligVars, tmplVars, scanVars, deployVars, syncVars>>
    /\ IF PickConfigFile = "yaml"
       THEN /\ ConfigFile' = "yaml"
            /\ Config' = LoadFile(yamlFile)
            /\ loadLog' = Loaded(1, yamlFile.st = "corrupt", "none", FALSE)
            /\ UNCHANGED <<yamlFile, jsonFile>>
       ELSE IF jsonFile.st = "corrupt"
       THEN /\ ConfigFile' = "json"
            /\ Config' = defaultConfig
            /\ loadLog' = Loaded(1, TRUE, "none", FALSE)
            /\ UNCHANGED <<yamlFile, jsonFile>>
       ELSE \* the JSON file parsed: migrate it to YAML, as it was decoded
            /\ ConfigFile' = "yaml"
            /\ yamlFile' = SavedFile(Decoded(jsonFile), saveOutcome)
            /\ IF saveOutcome = "ok"
               THEN \* remove the JSON file and load again, from the YAML file
                    /\ jsonFile' = IF removeOk THEN Absent ELSE jsonFile
                    /\ Config' = LoadFile(yamlFile')
                    /\ loadLog' = Loaded(2, FALSE, "saved", removeOk)
               ELSE \* migration failed: go on with the JSON document
                    /\ jsonFile' = jsonFile
                    /\ Config' = Parsed(jsonFile)
                    /\ loadLog' = Loaded(1, FALSE, "failed", FALSE)

\* the value addPackage stores (src/main.go:1649-1659), without the default
\* of no systems to "all"
AddedEntryNoDefault(systems) ==
    IF Len(systems) = 1 /\ isSimpleSystem(systems[1])
    THEN String(systems[1])
    ELSE Map(SystemsField(StringSlice(systems)))

\* the value addPackage stores for a package (src/main.go:1649-1659)
AddedEntry(systems) ==
    LET sys == IF Len(systems) = 0 THEN <<"all">> ELSE systems
    IN  IF Len(sys) = 1 /\ isSimpleSystem(sys[1])
        THEN String(sys[1])
        ELSE Map(SystemsField(StringSlice(sys)))

\* m[k] = v on a Go map
MapSet(m, k, v) == [x \in DOMAIN m \cup {k} |-> IF x = k THEN v ELSE m[x]]
\* delete(m, k)
MapDelete(m, k) == [x \in DOMAIN m \ {k} |-> m[x]]

\* `dotctl add <package> [systems...]`: addPackage (src/main.go:1648-1667)
\* and the saveConfig it ends with
AddPackage(packageName, systems, saveOutcome) ==
    /\ cfgPc = "loaded"
    /\ Config' = [Config EXCEPT !.Packages = MapSet(@, packageName, AddedEntry(systems))]
    /\ ConfigFile' = "yaml"
    /\ yamlFile' = SavedFile(Config', saveOutcome)
    /\ cfgPc' = "exited"
    /\ lastCmd' = Command("add", packageName, systems, FALSE, saveOutcome = "ok")
    /\ UNCHANGED <<jsonFile, loadLog, system, eligVars, tmplVars, scanVars, deployVars, syncVars>>

\* `dotctl remove <package>`: removePackage (src/main.go:1669-1682)
RemovePackage(packageName, saveOutcome) ==
    /\ cfgPc = "loaded"
    /\ cfgPc' = "exited"
    /\ UNCHANGED <<jsonFile, loadLog, system, eligVars, tmplVars, scanVars, deployVars, syncVars>>
    /\ IF packageName \notin DOMAIN Config.Packages
       THEN /\ lastCmd' = Command("remove", packageName, <<>>, FALSE, TRUE)
            /\ UNCHANGED <<Config, ConfigFile, yamlFile>>
       ELSE /\ Config' = [Config EXCEPT !.Packages = MapDelete(@, packageName)]
            /\ ConfigFile' = "yaml"
            /\ yamlFile' = SavedFile(Config', saveOutcome)
            /\ lastCmd' = Command("remove", packageName, <<>>, FALSE, saveOutcome = "ok")

\* a command that only reads the configuration (`dotctl status`,
\* src/main.go:1579-1646), after which the process exits
ReadOnlyCommand ==
    /\ cfgPc = "loaded"
    /\ cfgPc' = "exited"
    /\ lastCmd' = Command("status", "", <<>>, FALSE, TRUE)
    /\ UNCHANGED <<yamlFile, jsonFile, ConfigFile, Config, loadLog, system, eligVars, tmplVars, scanVars, deployVars, syncVars>>

\* `dotctl github-repo <repository> [branch]`: setGitHubRepo
\* (src/main.go:2055-2073); branch is "" when the argument is not given
SetGitHubRepo(repository, branch, saveOutcome) ==
    /\ cfgPc = "loaded"
    /\ Config' = [Config EXCEPT !.GitHub =
                     GitHub(repository, IF branch # "" THEN branch ELSE "main")]
    /\ ConfigFile' = "yaml"
    /\ yamlFile' = SavedFile(Config', saveOutcome)
    /\ cfgPc' = "exited"
    /\ lastCmd' = Command("github-repo", "", <<repository, branch>>, FALSE, saveOutcome = "ok")
    /\ UNCHANGED <<jsonFile, loadLog, system, eligVars, tmplVars, scanVars, deployVars, syncVars>>

\* `dotctl init`: initializeConfig (src/main.go:1992-2053); packages is what
\* scanPackages returns for the dotfiles root
InitializeConfig(packages, dryRun, saveOutcome) ==
    /\ cfgPc = "loaded"
    /\ cfgPc' = "exited"
    /\ UNCHANGED <<jsonFile, loadLog, system, eligVars, tmplVars, scanVars, deployVars, syncVars>>
    /\ IF (IF ConfigFile = "yaml" THEN yamlFile ELSE jsonFile).st # "absent"
       THEN \* "Configuration file already exists"
            /\ lastCmd' = Command("init", "", <<>>, dryRun, TRUE)
            /\ UNCHANGED <<Config, ConfigFile, yamlFile>>
       ELSE IF packages = {} \/ dryRun
       THEN /\ lastCmd' = Command("init", "", <<>>, dryRun, TRUE)
            /\ UNCHANGED <<Config, ConfigFile, yamlFile>>
       ELSE /\ Config' = [Packages |-> [k \in packages |-> String(system)],
                          GlobalExcludes |-> Slice(DefaultExcludes),
                          GitHub |-> GitHub("username/dotfiles", "main")]
            /\ ConfigFile' = "yaml"
            /\ yamlFile' = SavedFile(Config', saveOutcome)
            /\ lastCmd' = Command("init", "", <<>>, dryRun, saveOutcome = "ok")

\* an adoption that registers every package for every system
AdoptedForAll(systems) == String("all")

\* the value adoptSinglePackage stores for a package (src/main.go:1851-1858)
AdoptedEntry(systems) ==
    IF Len(systems) = 1 /\ isSimpleSystem(systems[1])
    THEN String(systems[1])
    ELSE Map(SystemsField(StringSlice(systems)))

\* the configuration after adoptSinglePackage registered every package of
\* adopted
AdoptedPackages(pk, adopted, systems) ==
    [k \in DOMAIN pk \cup adopted |->
        IF k \in adopted THEN AdoptedEntry(systems) ELSE pk[k]]

\* `dotctl adopt [package] [systems...]`: what adoptConfigDirectories
\* (src/main.go:1684-1829) does to the configuration.  newPackages are the
\* directories it found to adopt, adopted those adoptSinglePackage moved and
\* linked; the configuration is saved once, after the loop
AdoptPackages(newPackages, adopted, systems, dryRun, saveOutcome) ==
    /\ cfgPc = "loaded"
    /\ cfgPc' = "exited"
    /\ newPackages \cap DOMAIN Config.Packages = {}
    /\ adopted \subseteq newPackages
    /\ UNCHANGED <<jsonFile, loadLog, system, eligVars, tmplVars, scanVars, deployVars, syncVars>>
    /\ IF newPackages = {} \/ dryRun
       THEN /\ lastCmd' = Command("adopt", "", systems, dryRun, TRUE)
            /\ UNCHANGED <<Config, ConfigFile, yamlFile>>
       ELSE /\ Config' = [Config EXCEPT !.Packages = AdoptedPackages(@, adopted, systems)]
            /\ ConfigFile' = "yaml"
            /\ yamlFile' = SavedFile(Config', saveOutcome)
            /\ lastCmd' = Command("adopt", "", systems, dryRun, saveOutcome = "ok")

\* the system tags an add command is given: the wildcard, a tag
\* isSimpleSystem knows and one it does not know
AddTags == {"all", "arch", "freebsd"}
\* the package names an add command is given
AddedNames == {"vim"}
\* the systems the configuration commands run on
CfgSystems == {"arch", "freebsd"}

CfgStartup == \E o \in WriteOutcomes, r \in BOOLEAN : Startup(o, r)
CfgAdd ==
    \E p \in AddedNames, t \in SeqsUpTo(AddTags, MaxTags), o \in WriteOutcomes :
        AddPackage(p, t, o)
\* the tags the add commands of the store model are given
StoreTags == {"arch", "freebsd"}
StoreAdd ==
    \E p \in AddedNames, t \in SeqsUpTo(StoreTags, MaxTags), o \in WriteOutcomes :
        AddPackage(p, t, o)
CfgRemove == \E p \in PackageNames, o \in WriteOutcomes : RemovePackage(p, o)
CfgGitHubRepo ==
    \E b \in {"", "dev"}, o \in WriteOutcomes : SetGitHubRepo("me/dots", b, o)
CfgInitialize ==
    \E pk \in SUBSET PackageNames, d \in BOOLEAN, o \in WriteOutcomes :
        InitializeConfig(pk, d, o)
CfgAdopt ==
    \E n \in SUBSET PackageNames, d \in BOOLEAN, o \in WriteOutcomes :
        \E a \in SUBSET n : AdoptPackages(n, a, <<"arch">>, d, o)

----------------------------------------------------------------------------
(* Package scanner.  File names are strings with their characters and the  *)
(* byte values sort.Strings compares.                                      *)

EntryNames ==
    {"vim", "tmux", "Zsh", ".git", "dotctl.yaml", "dotctl.json", "__pycache__", "x.tmp"}

\* the path components of the deployment model
Components ==
    {"home", ".dotfiles", ".config", "vim", ".vim", "shell", ".zshrc", ".bashrc",
     ".bashrc.template", "bin", "init", "init.template"}

NameChars ==
    [n \in EntryNames \cup Components |->
        CASE n = "vim" -> <<"v", "i", "m">>
          [] n = "home" -> <<"h", "o", "m", "e">>
          [] n = ".dotfiles" -> <<".", "d", "o", "t", "f", "i", "l", "e", "s">>
          [] n = ".config" -> <<".", "c", "o", "n", "f", "i", "g">>
          [] n = ".vim" -> <<".", "v", "i", "m">>
          [] n = "shell" -> <<"s", "h", "e", "l", "l">>
          [] n = ".zshrc" -> <<".", "z", "s", "h", "r", "c">>
          [] n = ".bashrc" -> <<".", "b", "a", "s", "h", "r", "c">>
          [] n = ".bashrc.template" ->
                <<".", "b", "a", "s", "h", "r", "c", ".", "t", "e", "m", "p", "l", "a", "t", "e">>
          [] n = "bin" -> <<"b", "i", "n">>
          [] n = "init" -> <<"i", "n", "i", "t">>
          [] n = "init.template" ->
                <<"i", "n", "i", "t", ".", "t", "e", "m", "p", "l", "a", "t", "e">>
          [] n = "tmux" -> <<"t", "m", "u", "x">>
          [] n = "Zsh" -> <<"Z", "s", "h">>
          [] n = ".git" -> <<".", "g", "i", "t">>
          [] n = "dotctl.yaml" -> <<"d", "o", "t", "c", "t", "l", ".", "y", "a", "m", "l">>
          [] n = "dotctl.json" -> <<"d", "o", "t", "c", "t", "l", ".", "j", "s", "o", "n">>
          [] n = "__pycache__" -> <<"_", "_", "p", "y", "c", "a", "c", "h", "e", "_", "_">>
          [] n = "x.tmp" -> <<"x", ".", "t", "m", "p">>]

\* the byte value of a character
Byte(c) ==
    CASE c = "." -> 46 [] c = "Z" -> 90 [] c = "_" -> 95
      [] c = "a" -> 97 [] c = "b" -> 98 [] c = "c" -> 99 [] c = "d" -> 100
      [] c = "e" -> 101 [] c = "f" -> 102 [] c = "g" -> 103 [] c = "h" -> 104 [] c = "i" -> 105 [] c = "j" -> 106
      [] c = "l" -> 108 [] c = "m" -> 109 [] c = "n" -> 110 [] c = "o" -> 111
      [] c = "p" -> 112 [] c = "r" -> 114 [] c = "s" -> 115 [] c = "t" -> 116 [] c = "u" -> 117
      [] c = "v" -> 118 [] c = "x" -> 120 [] c = "y" -> 121
      [] c = "z" -> 122

\* a < b for Go strings: bytewise, a proper prefix first
StringLess(a, b) ==
    \E k \in 1..(Len(b)) :
        /\ \A i \in 1..(k - 1) : i <= Len(a) /\ a[i] = b[i]
        /\ Len(a) >= k - 1
        /\ (Len(a) = k - 1 \/ Byte(a[k]) < Byte(b[k]))

NameLess(m, n) == StringLess(NameChars[m], NameChars[n])

\* sort.Strings over a set of distinct names
RECURSIVE SortStrings(_)
SortStrings(S) ==
    IF S = {} THEN <<>>
    ELSE LET least == CHOOSE x \in S : \A y \in S \ {x} : NameLess(x, y)
         IN  <<least>> \o SortStrings(S \ {least})

\* os.ReadDir: the entries of the directory, sorted by file name
ReadDir(entries) == SortStrings({n \in EntryNames : entries[n] # "absent"})

\* the skip test of scanPackages (src/main.go:1363)
SkippedName(name) ==
    \/ name = ".git"
    \/ name = "dotctl.json"
    \/ name = "__pycache__"
    \/ HasSuffix(NameChars[name], <<".", "t", "m", "p">>)

\* src/main.go:1348 scanPackages without the entry.IsDir() test
scanPackagesAnyEntry(kind, entries) ==
    IF kind = "absent" THEN [packages |-> <<>>, err |-> FALSE]
    ELSE IF kind = "file" THEN [packages |-> <<>>, err |-> TRUE]
    ELSE LET listed == ReadDir(entries)
             kept == SelectSeq(listed, LAMBDA n : ~SkippedName(n))
         IN  [packages |-> SortStrings(Range(kept)), err |-> FALSE]

\* src/main.go:1348 scanPackages: the packages and whether an error is returned
scanPackages(kind, entries) ==
    IF kind = "absent" THEN [packages |-> <<>>, err |-> FALSE]
    ELSE IF kind = "file" THEN [packages |-> <<>>, err |-> TRUE]
    ELSE LET listed == ReadDir(entries)
             kept == SelectSeq(listed, LAMBDA n : ~SkippedName(n) /\ entries[n] = "dir")
         IN  [packages |-> SortStrings(Range(kept)), err |-> FALSE]

NoEntries == [n \in EntryNames |-> "absent"]

ScanIdle ==
    /\ rootKind = "absent"
    /\ rootEntries = NoEntries
    /\ scanResult = <<>>
    /\ scanErr = FALSE
    /\ scanPc = "idle"

ScanInit ==
    /\ rootKind \in {"absent", "dir", "file"}
    /\ rootEntries \in [EntryNames -> {"absent", "dir", "file"}]
    /\ rootKind # "dir" => rootEntries = NoEntries
    /\ scanResult = <<>>
    /\ scanErr = FALSE
    /\ scanPc = "input"

\* one call of scanPackages (status, src/main.go:1595; initializeConfig,
\* src/main.go:2001)
ScanPackages ==
    /\ scanPc = "input"
    /\ scanResult' = scanPackages(rootKind, rootEntries).packages
    /\ scanErr' = scanPackages(rootKind, rootEntries).err
    /\ scanPc' = "done"
    /\ UNCHANGED <<rootKind, rootEntries, system, eligVars, tmplVars, cfgVars, deployVars, syncVars>>

----------------------------------------------------------------------------
(* File system.  A path is the sequence of its components from "/"; a file *)
(* system maps the paths that exist to a directory, a file with its text,  *)
(* or a symbolic link with its (relative) target.                          *)

DirNode == [kind |-> "dir"]
FileNode(content) == [kind |-> "file", content |-> content]
LinkNode(target) == [kind |-> "link", target |-> target]

Up == ".."
NoPath == <<"ENOENT">>
\* symbolic links followed before ELOOP
MaxLinks == 3

\* usr.HomeDir and dm.DotfilesDir (the default, src/main.go:1054)
HomeDir == <<"home">>
DotfilesDir == HomeDir \o <<".dotfiles">>

\* filepath.Dir and filepath.Base of a path with at least one component
Dir(p) == SubSeq(p, 1, Len(p) - 1)
Base(p) == p[Len(p)]

IsUnder(q, d) == Len(q) > Len(d) /\ SubSeq(q, 1, Len(d)) = d

\* the kernel's path walk: prefix is resolved, rest is still to be walked;
\* the physical path, or NoPath (ENOENT, ENOTDIR, ELOOP)
RECURSIVE WalkPath(_, _, _, _)
WalkPath(fsys, prefix, rest, fuel) ==
    IF rest = <<>> THEN prefix
    ELSE IF Head(rest) = Up
         THEN WalkPath(fsys, IF prefix = <<>> THEN <<>> ELSE Dir(prefix), Tail(rest), fuel)
    ELSE LET q == prefix \o <<Head(rest)>>
         IN  IF q \notin DOMAIN fsys THEN NoPath
             ELSE IF fsys[q].kind = "link"
                  THEN IF fuel = 0 THEN NoPath
                       ELSE WalkPath(fsys, prefix, fsys[q].target \o Tail(rest), fuel - 1)
             ELSE IF fsys[q].kind = "file" /\ Tail(rest) # <<>> THEN NoPath
             ELSE WalkPath(fsys, q, Tail(rest), fuel)

\* the path with every symbolic link followed (what os.Stat looks at)
Resolve(fsys, p) == WalkPath(fsys, <<>>, p, MaxLinks)

\* the path with the links of its directory followed and the last component
\* not (what os.Lstat, os.Remove and os.Symlink look at)
LPath(fsys, p) ==
    IF p = <<>> THEN <<>>
    ELSE LET d == Resolve(fsys, Dir(p))
         IN  IF d = NoPath \/ fsys[d].kind # "dir" THEN NoPath ELSE d \o <<Base(p)>>

\* os.Stat(p) and os.Lstat(p) return no error
Stat(fsys, p) == Resolve(fsys, p) # NoPath
Lstat(fsys, p) == LPath(fsys, p) # NoPath /\ LPath(fsys, p) \in DOMAIN fsys

\* the outcome of a file-system call: whether it returned nil, and the file
\* system it leaves
Done(fsys) == [ok |-> TRUE, fs |-> fsys]
Failed(fsys) == [ok |-> FALSE, fs |-> fsys]

WithNode(fsys, q, node) ==
    [x \in DOMAIN fsys \cup {q} |-> IF x = q THEN node ELSE fsys[x]]
WithoutNode(fsys, q) == [x \in DOMAIN fsys \ {q} |-> fsys[x]]

\* os.Remove: unlinks a file or link, removes an empty directory
Remove(fsys, p) ==
    LET q == LPath(fsys, p)
    IN  IF ~Lstat(fsys, p) THEN Failed(fsys)
        ELSE IF \E x \in DOMAIN fsys : IsUnder(x, q) THEN Failed(fsys)
        ELSE Done(WithoutNode(fsys, q))

\* os.Rename(old, new): moves a file, a link or a directory with everything
\* under it; an existing new path is replaced unless it is a directory that
\* is not empty (ENOTEMPTY) or the two are not both directories or both not
MovedPath(x, from, to) == to \o SubSeq(x, Len(from) + 1, Len(x))
Rename(fsys, old, new) ==
    LET q == LPath(fsys, old)
        r == LPath(fsys, new)
        moved == {x \in DOMAIN fsys : x = q \/ IsUnder(x, q)}
    IN  IF ~Lstat(fsys, old) \/ r = NoPath THEN Failed(fsys)
        ELSE IF q = r THEN Done(fsys)
        ELSE IF IsUnder(r, q) THEN Failed(fsys)
        ELSE IF r \in DOMAIN fsys
                /\ \/ (fsys[q].kind = "dir") # (fsys[r].kind = "dir")
                   \/ \E x \in DOMAIN fsys : IsUnder(x, r)
             THEN Failed(fsys)
        ELSE Done([x \in ((DOMAIN fsys \ moved) \cup {MovedPath(y, q, r) : y \in moved}) |->
                      IF x = r \/ IsUnder(x, r) THEN fsys[MovedPath(x, r, q)]
                      ELSE fsys[x]])

\* os.Symlink(target, p)
Symlink(fsys, target, p) ==
    LET q == LPath(fsys, p)
    IN  IF q = NoPath \/ q \in DOMAIN fsys THEN Failed(fsys)
        ELSE Done(WithNode(fsys, q, LinkNode(target)))

\* os.MkdirAll
RECURSIVE MkdirAll(_, _)
MkdirAll(fsys, p) ==
    IF Stat(fsys, p)
    THEN IF fsys[Resolve(fsys, p)].kind = "dir" THEN Done(fsys) ELSE Failed(fsys)
    ELSE LET parent == MkdirAll(fsys, Dir(p))
             q == LPath(parent.fs, p)
         IN  IF ~parent.ok THEN parent
             ELSE IF q = NoPath \/ q \in DOMAIN parent.fs THEN Failed(parent.fs)
             ELSE Done(WithNode(parent.fs, q, DirNode))

\* os.ReadFile: the text, or NoPath when p is not a readable file
ReadFile(fsys, p) ==
    IF Stat(fsys, p) /\ fsys[Resolve(fsys, p)].kind = "file"
    THEN fsys[Resolve(fsys, p)].content
    ELSE NoPath

\* os.WriteFile: creates or truncates the file p names, through links
RECURSIVE WriteThrough(_, _, _, _)
WriteThrough(fsys, p, content, fuel) ==
    LET q == LPath(fsys, p)
    IN  IF q = NoPath THEN Failed(fsys)
        ELSE IF q \notin DOMAIN fsys THEN Done(WithNode(fsys, q, FileNode(content)))
        ELSE IF fsys[q].kind = "dir" THEN Failed(fsys)
        ELSE IF fsys[q].kind = "file" THEN Done(WithNode(fsys, q, FileNode(content)))
        ELSE IF fuel = 0 THEN Failed(fsys)
        ELSE WriteThrough(fsys, Dir(q) \o fsys[q].target, content, fuel - 1)

WriteFile(fsys, p, content) == WriteThrough(fsys, p, content, MaxLinks)

\* the names in a directory, as os.ReadDir and filepath.Walk list them
\* (sorted by file name)
ReadDirNames(fsys, d) ==
    SortStrings({Base(x) : x \in {y \in DOMAIN fsys : IsUnder(y, d) /\ Len(y) = Len(d) + 1}})

\* filepath.Rel(base, targ) for two absolute paths
RECURSIVE CommonPrefixLen(_, _)
CommonPrefixLen(a, b) ==
    IF a # <<>> /\ b # <<>> /\ Head(a) = Head(b)
    THEN 1 + CommonPrefixLen(Tail(a), Tail(b))
    ELSE 0

Rel(base, targ) ==
    LET k == CommonPrefixLen(base, targ)
    IN  [i \in 1..(Len(base) - k) |-> Up] \o SubSeq(targ, k + 1, Len(targ))

----------------------------------------------------------------------------
(* Deployment.  A package name is the sequence of the components of the    *)
(* name ("a/b" is <<"a", "b">>), as filepath.Join takes it apart.          *)

\* commands per run of the deployment model
MaxOps == 2
\* the number of bulk commands of a run
MaxBulkOps == 1

DeployNames == {<<"vim">>, <<".vim">>, <<"shell">>, <<".config", "vim">>}

TemplateSuffix == <<".", "t", "e", "m", "p", "l", "a", "t", "e">>

\* strings.TrimSuffix(name, ".template") of a name with that suffix
TrimSuffix(name) ==
    CHOOSE n \in DOMAIN NameChars :
        NameChars[n] = SubSeq(NameChars[name], 1, Len(NameChars[name]) - Len(TemplateSuffix))

NoPackageConfig == [nil |-> TRUE, Systems |-> <<>>, Home |-> FALSE]

\* src/main.go:1304 getPackageConfig
getPackageConfig(packages, packageName) ==
    IF packageName \notin DOMAIN packages THEN NoPackageConfig
    ELSE LET config == packages[packageName]
         IN  IF config.kind = "string"
             THEN [nil |-> FALSE, Systems |-> <<config.val>>, Home |-> FALSE]
             ELSE IF config.kind = "map"
             THEN [nil |-> FALSE,
                   Systems |->
                      IF "systems" \in DOMAIN config.fields
                            /\ config.fields["systems"].kind = "[]interface{}"
                      THEN LET strs == SelectSeq(config.fields["systems"].elems,
                                                 LAMBDA e : e.kind = "string")
                           IN  [i \in 1..Len(strs) |-> strs[i].val]
                      ELSE <<>>,
                   Home |-> /\ "home" \in DOMAIN config.fields
                            /\ config.fields["home"].kind = "bool"
                            /\ config.fields["home"].b]
             ELSE NoPackageConfig

\* src/main.go:2367 isConfigPackage
isConfigPackage(packageName) ==
    ~(HasPrefix(NameChars[Head(packageName)], <<".">>) \/ packageName = <<"shell">>)

\* src/main.go:1890 processTemplate
processTemplate(fsys, templatePath, outputPath, sys) ==
    IF ReadFile(fsys, templatePath) = NoPath THEN Failed(fsys)
    ELSE WriteFile(fsys, outputPath, processTemplateContent(ReadFile(fsys, templatePath), sys))

\* the files filepath.Walk visits under the directory d, in its order
RECURSIVE WalkFiles(_, _, _)
WalkFiles(fsys, d, names) ==
    IF names = <<>> THEN <<>>
    ELSE LET q == d \o <<Head(names)>>
         IN  (IF fsys[q].kind = "dir" THEN WalkFiles(fsys, q, ReadDirNames(fsys, q))
              ELSE <<q>>)
             \o WalkFiles(fsys, d, Tail(names))

RECURSIVE processTemplateFiles(_, _, _)
processTemplateFiles(fsys, files, sys) ==
    IF files = <<>> THEN Done(fsys)
    ELSE IF ~HasSuffix(NameChars[Base(Head(files))], TemplateSuffix)
    THEN processTemplateFiles(fsys, Tail(files), sys)
    ELSE LET path == Head(files)
             outputPath == Dir(path) \o <<TrimSuffix(Base(path))>>
             written == processTemplate(fsys, path, outputPath, sys)
         IN  IF ~written.ok THEN written
             ELSE processTemplateFiles(written.fs, Tail(files), sys)

\* src/main.go:1960 processPackageTemplates (called with dryRun false)
processPackageTemplates(fsys, packageDir, sys) ==
    LET root == LPath(fsys, packageDir)
    IN  IF ~Lstat(fsys, packageDir) THEN Failed(fsys)
        ELSE IF fsys[root].kind # "dir" THEN Done(fsys)
        ELSE processTemplateFiles(fsys, WalkFiles(fsys, root, ReadDirNames(fsys, root)), sys)

\* the loop of deployShellPackage over the entries of the directory d
RECURSIVE deployShellEntries(_, _, _, _, _, _)
deployShellEntries(fsys, d, homeDir, entries, dryRun, sys) ==
    IF entries = <<>> THEN Done(fsys)
    ELSE LET fileName == Head(entries)
             sourcePath == d \o <<fileName>>
             isTemplate == HasSuffix(NameChars[fileName], TemplateSuffix)
             targetPath == homeDir \o <<IF isTemplate THEN TrimSuffix(fileName) ELSE fileName>>
             removed == IF Lstat(fsys, targetPath) THEN Remove(fsys, targetPath) ELSE Done(fsys)
             placed == IF isTemplate
                       THEN processTemplate(removed.fs, sourcePath, targetPath, sys)
                       ELSE Symlink(removed.fs, Rel(homeDir, sourcePath), targetPath)
         IN  IF fsys[LPath(fsys, sourcePath)].kind = "dir" \/ dryRun
             THEN deployShellEntries(fsys, d, homeDir, Tail(entries), dryRun, sys)
             ELSE IF ~removed.ok THEN removed
             ELSE IF ~placed.ok THEN placed
             ELSE deployShellEntries(placed.fs, d, homeDir, Tail(entries), dryRun, sys)

\* src/main.go:2379 deployShellPackage
deployShellPackage(fsys, packageDir, homeDir, dryRun, sys) ==
    LET d == Resolve(fsys, packageDir)
    IN  IF d = NoPath \/ fsys[d].kind # "dir" THEN Failed(fsys)
        ELSE deployShellEntries(fsys, packageDir, homeDir, ReadDirNames(fsys, d), dryRun, sys)

\* src/main.go:1402 deployPackage
deployPackage(fsys, packages, packageName, dryRun, sys) ==
    LET packageDir == DotfilesDir \o packageName
        pkgConfig == getPackageConfig(packages, packageName)
        home == ~pkgConfig.nil /\ pkgConfig.Home
        targetDir == IF home THEN HomeDir
                     ELSE IF isConfigPackage(packageName) THEN HomeDir \o <<".config">>
                     ELSE HomeDir
        symlinkPath == targetDir \o packageName
        made == MkdirAll(fsys, targetDir)
        removed == IF Lstat(made.fs, symlinkPath) THEN Remove(made.fs, symlinkPath)
                   ELSE Done(made.fs)
        templated == processPackageTemplates(removed.fs, packageDir, sys)
    IN  IF ~Stat(fsys, packageDir) THEN Failed(fsys)
        ELSE IF ~home /\ ~isConfigPackage(packageName) /\ packageName = <<"shell">>
        THEN deployShellPackage(fsys, packageDir, HomeDir, dryRun, sys)
        ELSE IF ~made.ok \/ dryRun THEN made
        ELSE IF ~removed.ok THEN removed
        ELSE IF ~templated.ok THEN templated
        ELSE Symlink(templated.fs, Rel(targetDir, packageDir), symlinkPath)

\* the loop of undeployShellPackage
RECURSIVE undeployShellEntries(_, _, _, _)
undeployShellEntries(fsys, homeDir, entries, dryRun) ==
    IF entries = <<>> THEN Done(fsys)
    ELSE LET targetPath == homeDir \o <<Head(entries)>>
             removed == Remove(fsys, targetPath)
         IN  IF dryRun \/ ~Lstat(fsys, targetPath)
             THEN undeployShellEntries(fsys, homeDir, Tail(entries), dryRun)
             ELSE IF ~removed.ok THEN removed
             ELSE undeployShellEntries(removed.fs, homeDir, Tail(entries), dryRun)

\* src/main.go:2453 undeployShellPackage
undeployShellPackage(fsys, packageDir, homeDir, dryRun) ==
    LET d == Resolve(fsys, packageDir)
    IN  IF d = NoPath \/ fsys[d].kind # "dir" THEN Failed(fsys)
        ELSE undeployShellEntries(fsys, homeDir, ReadDirNames(fsys, d), dryRun)

\* src/main.go:1481 undeployPackage
undeployPackage(fsys, packages, packageName, dryRun) ==
    LET pkgConfig == getPackageConfig(packages, packageName)
        home == ~pkgConfig.nil /\ pkgConfig.Home
        symlinkPath == IF home THEN HomeDir \o packageName
                       ELSE IF isConfigPackage(packageName)
                            THEN HomeDir \o <<".config">> \o packageName
                       ELSE HomeDir \o packageName
    IN  IF ~home /\ ~isConfigPackage(packageName) /\ packageName = <<"shell">>
        THEN undeployShellPackage(fsys, DotfilesDir \o packageName, HomeDir, dryRun)
        ELSE IF dryRun THEN Done(fsys)
        ELSE IF ~Lstat(fsys, symlinkPath) THEN Done(fsys)
        ELSE Remove(fsys, symlinkPath)

\* src/main.go:1880 isKnownSystem
isKnownSystem(name) ==
    name \in {"all", "linux", "macos", "arch", "ubuntu", "debian", "fedora", "windows"}

\* src/main.go:1863 shouldSkipDirectory
shouldSkipDirectory(name) ==
    name \in {"pulse", "systemd", "dconf", "gconf", "ibus", "fontconfig", "gtk-2.0",
              "gtk-3.0", "gtk-4.0", "qt5ct", "qt6ct", "Trolltech.conf", "mimeapps.list",
              "user-dirs.dirs", "user-dirs.locale"}

ConfigDir == HomeDir \o <<".config">>

\* the one element of a set; {F(v) : v \in {e}} computes e once and F of it
Only(S) == CHOOSE v \in S : TRUE

\* the outcome of an adoption: whether it returned nil, the file system and
\* the package map it leaves
Adopted(ok, fsys, packages) == [ok |-> ok, fs |-> fsys, packages |-> packages]

\* an adoption that leaves the directory in the dotfiles root when the
\* symlink cannot be made
adoptSinglePackageNoMoveBack(fsys, packages, packageName, systems, symlinkFault) ==
    LET sourcePath == ConfigDir \o <<packageName>>
        targetPath == DotfilesDir \o <<packageName>>
        moved == Rename(fsys, sourcePath, targetPath)
        linked == IF symlinkFault THEN Failed(moved.fs)
                  ELSE Symlink(moved.fs, Rel(ConfigDir, targetPath), sourcePath)
    IN  IF ~moved.ok THEN Adopted(FALSE, fsys, packages)
        ELSE IF ~linked.ok THEN Adopted(FALSE, moved.fs, packages)
        ELSE Adopted(TRUE, linked.fs,
                     MapSet(packages, <<packageName>>, AdoptedEntry(systems)))

\* src/main.go:1830 adoptSinglePackage; symlinkFault is an os.Symlink that
\* fails although the path is free
adoptSinglePackage(fsys, packages, packageName, systems, symlinkFault) ==
    LET sourcePath == ConfigDir \o <<packageName>>
        targetPath == DotfilesDir \o <<packageName>>
        moved == Rename(fsys, sourcePath, targetPath)
        linked == IF symlinkFault THEN Failed(moved.fs)
                  ELSE Symlink(moved.fs, Rel(ConfigDir, targetPath), sourcePath)
    IN  IF ~moved.ok THEN Adopted(FALSE, fsys, packages)
        ELSE IF ~linked.ok
        THEN Adopted(FALSE, Rename(moved.fs, targetPath, sourcePath).fs, packages)
        ELSE Adopted(TRUE, linked.fs,
                     MapSet(packages, <<packageName>>, AdoptedEntry(systems)))

\* the loop of adoptConfigDirectories over newPackages (src/main.go:1811-1820)
RECURSIVE adoptEach(_, _, _, _, _)
adoptEach(fsys, packages, newPackages, systems, symlinkFault) ==
    IF newPackages = <<>> THEN Adopted(TRUE, fsys, packages)
    ELSE Only({adoptEach(one.fs, one.packages, Tail(newPackages), systems, symlinkFault) :
                 one \in {adoptSinglePackage(fsys, packages, Head(newPackages), systems,
                                             symlinkFault)}})

\* what the first part of adoptConfigDirectories (src/main.go:1696-1716)
\* makes of the arguments
targetPackagesOf(args) ==
    IF Len(args) > 0 /\ ~isKnownSystem(args[1]) THEN <<args[1]>> ELSE <<>>
systemsOf(args) ==
    LET systems == IF Len(args) > 0 /\ ~isKnownSystem(args[1]) THEN Tail(args) ELSE args
    IN  IF Len(systems) = 0 THEN <<"all">> ELSE systems

\* the candidates adoptConfigDirectories finds (src/main.go:1718-1783)
newPackagesOf(fsys, packages, args) ==
    LET managed(n) == <<n>> \in DOMAIN packages /\ isConfigPackage(<<n>>)
        isLink(n) == /\ Lstat(fsys, ConfigDir \o <<n>>)
                     /\ fsys[LPath(fsys, ConfigDir \o <<n>>)].kind = "link"
    IN  IF targetPackagesOf(args) # <<>>
        THEN SelectSeq(targetPackagesOf(args),
                       LAMBDA n : ~managed(n) /\ ~isLink(n) /\ Stat(fsys, ConfigDir \o <<n>>))
        ELSE SelectSeq(ReadDirNames(fsys, Resolve(fsys, ConfigDir)),
                       LAMBDA n : /\ fsys[Resolve(fsys, ConfigDir) \o <<n>>].kind = "dir"
                                  /\ ~managed(n)
                                  /\ ~shouldSkipDirectory(n))

\* saveConfig on the file system (src/main.go:1187-1217): the dotfiles root
\* is created and the document written
savedConfig(fsys, packages) ==
    LET made == MkdirAll(fsys, DotfilesDir)
    IN  IF ~made.ok THEN made
        ELSE WriteFile(made.fs, DotfilesDir \o <<"dotctl.yaml">>, MarshalPackages(packages))

\* src/main.go:1684 adoptConfigDirectories
adoptConfigDirectories(fsys, packages, args, dryRun, symlinkFault) ==
    LET newPackages == newPackagesOf(fsys, packages, args)
        savedAfter(after) ==
            Only({Adopted(saved.ok, saved.fs, after.packages) :
                    saved \in {savedConfig(after.fs, after.packages)}})
    IN  IF ~Stat(fsys, ConfigDir) THEN Adopted(TRUE, fsys, packages)
        ELSE IF targetPackagesOf(args) = <<>> /\ fsys[Resolve(fsys, ConfigDir)].kind # "dir"
        THEN Adopted(FALSE, fsys, packages)
        ELSE IF newPackages = <<>> \/ dryRun THEN Adopted(TRUE, fsys, packages)
        ELSE Only({savedAfter(after) :
                     after \in {adoptEach(fsys, packages, newPackages, systemsOf(args),
                                          symlinkFault)}})

\* src/main.go:1260 getPackagesForSystem(""): the configured packages that
\* shouldDeployPackage accepts for the current system, sorted by sort.Strings
getPackagesForSystem(packages, sys) ==
    LET eligible == {n \in DOMAIN packages : shouldDeployPackage(packages[n], sys)}
        sorted == SortStrings({Head(n) : n \in eligible})
    IN  [i \in 1..Len(sorted) |-> <<sorted[i]>>]

\* the state of the loops of deployAll and undeployAll: the file system, the
\* packages the loop has called the operation for, whether each call
\* returned nil, and successCount
Tally(fsys) == [fs |-> fsys, attempted |-> <<>>, results |-> <<>>, successCount |-> 0]

Tallied(t, pkg, r) ==
    [fs |-> r.fs, attempted |-> Append(t.attempted, pkg), results |-> Append(t.results, r.ok),
     successCount |-> IF r.ok THEN t.successCount + 1 ELSE t.successCount]

\* a loop that ends at the first error
RECURSIVE deployEachStopping(_, _, _, _, _)
deployEachStopping(t, packages, list, dryRun, sys) ==
    IF list = <<>> THEN t
    ELSE Only({IF r.ok THEN deployEachStopping(Tallied(t, Head(list), r), packages,
                                               Tail(list), dryRun, sys)
               ELSE Tallied(t, Head(list), r) :
               r \in {deployPackage(t.fs, packages, Head(list), dryRun, sys)}})

\* the loop of deployAll (src/main.go:1543-1550)
RECURSIVE deployEach(_, _, _, _, _)
deployEach(t, packages, list, dryRun, sys) ==
    IF list = <<>> THEN t
    ELSE Only({deployEach(Tallied(t, Head(list), r), packages, Tail(list), dryRun, sys) :
               r \in {deployPackage(t.fs, packages, Head(list), dryRun, sys)}})

\* src/main.go:1529 deployAll
deployAll(fsys, packages, list, dryRun, sys) ==
    deployEach(Tally(fsys), packages,
               IF Len(list) = 0 THEN getPackagesForSystem(packages, sys) ELSE list,
               dryRun, sys)

\* the loop of undeployAll (src/main.go:1568-1574)
RECURSIVE undeployEach(_, _, _, _)
undeployEach(t, packages, list, dryRun) ==
    IF list = <<>> THEN t
    ELSE Only({undeployEach(Tallied(t, Head(list), r), packages, Tail(list), dryRun) :
               r \in {undeployPackage(t.fs, packages, Head(list), dryRun)}})

\* src/main.go:1555 undeployAll
undeployAll(fsys, packages, list, dryRun, sys) ==
    undeployEach(Tally(fsys), packages,
                 IF Len(list) = 0 THEN getPackagesForSystem(packages, sys) ELSE list,
                 dryRun)

\* the texts of the files the model starts with
TemplateText == Content(<<1, 3, 1, 5>>)
PlainText == Content(<<1>>)
OtherText == Content(<<1, 1>>)

\* every path a run can start with, and what is there
StartTree ==
    (<<>> :> DirNode) @@ (HomeDir :> DirNode) @@ (DotfilesDir :> DirNode)
    @@ (DotfilesDir \o <<".vim">> :> DirNode)
    @@ (DotfilesDir \o <<".config">> :> DirNode)
    @@ (DotfilesDir \o <<".config", "vim">> :> DirNode)
    @@ (DotfilesDir \o <<"vim">> :> DirNode)
    @@ (DotfilesDir \o <<"vim", "init.template">> :> FileNode(TemplateText))
    @@ (DotfilesDir \o <<"shell">> :> DirNode)
    @@ (DotfilesDir \o <<"shell", ".zshrc">> :> FileNode(PlainText))
    @@ (DotfilesDir \o <<"shell", ".bashrc.template">> :> FileNode(TemplateText))
    @@ (DotfilesDir \o <<"shell", "bin">> :> DirNode)
    @@ (DotfilesDir \o <<"vim", "init">> :> DirNode)
    @@ (HomeDir \o <<".config">> :> DirNode)
    @@ (HomeDir \o <<".config", "vim">> :> LinkNode(<<Up, ".dotfiles", "vim">>))
    @@ (HomeDir \o <<".zshrc">> :> FileNode(OtherText))

\* the paths that are there in every start state, and the groups of paths
\* that may be
AlwaysThere ==
    {<<>>, HomeDir, DotfilesDir, DotfilesDir \o <<".vim">>, DotfilesDir \o <<".config">>,
     DotfilesDir \o <<".config", "vim">>}

OptionalParts ==
    { {DotfilesDir \o <<"vim">>, DotfilesDir \o <<"vim", "init.template">>},
      {DotfilesDir \o <<"shell">>, DotfilesDir \o <<"shell", ".zshrc">>,
       DotfilesDir \o <<"shell", ".bashrc.template">>, DotfilesDir \o <<"shell", "bin">>},
      {HomeDir \o <<".config">>},
      {HomeDir \o <<".zshrc">>},
      \* vim was deployed to ~/.config/vim by an earlier run, and a directory
      \* now has the name of the output of its template
      {DotfilesDir \o <<"vim">>, DotfilesDir \o <<"vim", "init.template">>,
       DotfilesDir \o <<"vim", "init">>,
       HomeDir \o <<".config">>, HomeDir \o <<".config", "vim">>} }

StartTrees ==
    {[x \in AlwaysThere \cup UNION parts |-> StartTree[x]] : parts \in SUBSET OptionalParts}

HomeField(v) == [k \in {"home"} |-> v]

\* the package maps of the deploying processes: no entries, or an entry with
\* the home flag for vim or for shell
StartConfigs ==
    { [n \in {} |-> String("all")],
      [n \in {<<"vim">>} |-> Map(HomeField(Bool(TRUE)))],
      [n \in {<<"shell">>} |-> Map(HomeField(Bool(TRUE)))] }

NoOp == [op |-> "none", pkg |-> <<>>, dryRun |-> FALSE, ok |-> TRUE, exit |-> 0]

DeployIdle ==
    /\ fs = <<>>
    /\ fsBefore = <<>>
    /\ deployConfig = <<>>
    /\ lastOp = NoOp
    /\ prevOp = NoOp
    /\ opCount = 0

DeployInit ==
    /\ fs \in StartTrees
    /\ fsBefore = fs
    /\ deployConfig \in StartConfigs
    /\ lastOp = NoOp
    /\ prevOp = NoOp
    /\ opCount = 0

\* os.Exit(1) after a reported error (src/main.go:2605-2720)
ExitOnError(ok) == IF ok THEN 0 ELSE 1
\* deploy and undeploy: deployAll and undeployAll return nothing, main leaves
\* the switch and returns (src/main.go:2611-2615)
ExitOfDeployAll(ok) == 0

\* a command has run: ok is whether it reported no error, exit is the exit
\* code of the process
Ran(op, packageName, dryRun, result, exit) ==
    /\ fs' = result.fs
    /\ fsBefore' = fs
    /\ prevOp' = lastOp
    /\ lastOp' = [op |-> op, pkg |-> packageName, dryRun |-> dryRun, ok |-> result.ok,
                  exit |-> exit]
    /\ opCount' = opCount + 1
    /\ UNCHANGED <<deployConfig, system, eligVars, tmplVars, cfgVars, scanVars, syncVars>>

\* the argument lists of the adopt commands: none, systems only, one name,
\* one name and a system, and two names
AdoptArgs ==
    {<<>>, <<"arch">>, <<"vim">>, <<"vim", "arch">>, <<"vim", "tmux">>, <<"tmux", "vim">>}

\* every path a run of the adoption model can start with
AdoptTree ==
    (<<>> :> DirNode) @@ (HomeDir :> DirNode) @@ (DotfilesDir :> DirNode)
    @@ (DotfilesDir \o <<"vim">> :> DirNode)
    @@ (DotfilesDir \o <<"vim", "init">> :> FileNode(OtherText))
    @@ (ConfigDir :> DirNode)
    @@ (ConfigDir \o <<"vim">> :> DirNode)
    @@ (ConfigDir \o <<"vim", "init">> :> FileNode(PlainText))
    @@ (ConfigDir \o <<"tmux">> :> DirNode)
    @@ (DotfilesDir \o <<"tmux">> :> FileNode(OtherText))

\* the start states: every set of these paths that has the parent of each of
\* its paths, and those with a symbolic link at ~/.config/vim
AdoptTrees ==
    LET closed == {D \in SUBSET DOMAIN AdoptTree :
                      /\ {<<>>, HomeDir} \subseteq D
                      /\ \A x \in D : x # <<>> => Dir(x) \in D}
    IN  {[x \in D |-> AdoptTree[x]] : D \in closed}
        \cup {[x \in D |-> IF x = ConfigDir \o <<"vim">>
                            THEN LinkNode(<<Up, ".dotfiles", "vim">>) ELSE AdoptTree[x]] :
                 D \in {E \in closed : /\ ConfigDir \o <<"vim">> \in E
                                        /\ ConfigDir \o <<"vim", "init">> \notin E}}

\* the package maps of the adopting processes
AdoptConfigs ==
    { [n \in {} |-> String("all")],
      [n \in {<<"vim">>} |-> String("all")],
      [n \in {<<"tmux">>} |-> String("macos")] }

AdoptInit ==
    /\ fs \in AdoptTrees
    /\ fsBefore = fs
    /\ deployConfig \in AdoptConfigs
    /\ lastOp = NoOp
    /\ prevOp = NoOp
    /\ opCount = 0

\* dotctl adopt ARGS (src/main.go:2644-2648)
Adopt ==
    \E args \in AdoptArgs, dryRun \in BOOLEAN, symlinkFault \in BOOLEAN :
        \E result \in {adoptConfigDirectories(fs, deployConfig, args, dryRun, symlinkFault)} :
            /\ opCount < MaxOps
            /\ dryRun => ~symlinkFault
            /\ fs' = result.fs
            /\ fsBefore' = fs
            /\ deployConfig' = result.packages
            /\ prevOp' = lastOp
            /\ lastOp' = [op |-> "adopt", pkg |-> <<>>, dryRun |-> dryRun, ok |-> result.ok,
                          exit |-> ExitOnError(result.ok), args |-> args,
                          symlinkFault |-> symlinkFault, configBefore |-> deployConfig]
            /\ opCount' = opCount + 1
            /\ UNCHANGED <<system, eligVars, tmplVars, cfgVars, scanVars, syncVars>>

\* dotctl deploy NAME (src/main.go:1529 deployAll with one package)
Deploy ==
    \E packageName \in DeployNames, dryRun \in BOOLEAN :
        /\ opCount < MaxOps
        /\ Ran("deploy", packageName, dryRun,
               deployPackage(fs, deployConfig, packageName, dryRun, system),
               ExitOfDeployAll(deployPackage(fs, deployConfig, packageName, dryRun, system).ok))

\* dotctl undeploy NAME (src/main.go:1554 undeployAll with one package)
Undeploy ==
    \E packageName \in DeployNames, dryRun \in BOOLEAN :
        /\ opCount < MaxOps
        /\ Ran("undeploy", packageName, dryRun,
               undeployPackage(fs, deployConfig, packageName, dryRun),
               ExitOfDeployAll(undeployPackage(fs, deployConfig, packageName, dryRun).ok))

\* the package lists of the bulk commands: none, one name, two names in
\* either order, and one name twice
BulkLists ==
    {<<>>, <<<<"vim">>>>, <<<<"vim">>, <<"shell">>>>, <<<<"shell">>, <<"vim">>>>,
     <<<<"vim">>, <<"vim">>>>}

\* the package maps of the bulk commands
BulkConfigs ==
    { [n \in {} |-> String("all")],
      [n \in {<<"vim">>, <<"shell">>, <<".vim">>} |->
          IF n = <<"vim">> THEN String("all")
          ELSE IF n = <<"shell">> THEN String("macos") ELSE String("arch")] }

BulkInit ==
    /\ fs \in StartTrees
    /\ fsBefore = fs
    /\ deployConfig \in BulkConfigs
    /\ lastOp = NoOp
    /\ prevOp = NoOp
    /\ opCount = 0

\* a bulk command has run
RanAll(op, list, dryRun, t) ==
    /\ fs' = t.fs
    /\ fsBefore' = fs
    /\ prevOp' = lastOp
    /\ lastOp' = [op |-> op, pkg |-> <<>>, dryRun |-> dryRun,
                  ok |-> t.successCount = Len(t.attempted), exit |-> ExitOfDeployAll(TRUE),
                  list |-> list, attempted |-> t.attempted, results |-> t.results,
                  successCount |-> t.successCount]
    /\ opCount' = opCount + 1
    /\ UNCHANGED <<deployConfig, system, eligVars, tmplVars, cfgVars, scanVars, syncVars>>

\* dotctl deploy [NAME...] (src/main.go:2611-2612)
DeployAll ==
    \E list \in BulkLists, dryRun \in BOOLEAN :
        \E t \in {deployAll(fs, deployConfig, list, dryRun, system)} :
            /\ opCount < MaxBulkOps
            /\ RanAll("deploy all", list, dryRun, t)

\* dotctl undeploy [NAME...] (src/main.go:2614-2615)
UndeployAll ==
    \E list \in BulkLists, dryRun \in BOOLEAN :
        \E t \in {undeployAll(fs, deployConfig, list, dryRun, system)} :
            /\ opCount < MaxBulkOps
            /\ RanAll("undeploy all", list, dryRun, t)

----------------------------------------------------------------------------
(* Sync.  The repository is described by what the git commands of          *)
(* syncToGitHub read and change: whether .git exists, how HEAD stands to   *)
(* the branch on the remote, whether HEAD and origin/<branch> are the same *)
(* commit, the three kinds of local change, and the stash.                 *)

\* HEAD against the branch on the remote; "unborn" is a repository without
\* a commit
Relations == {"equal", "behind", "ahead", "diverged", "unborn"}

\* the stash entries a run can start with, newest first; "old" is an entry
\* that was there before the run and "run" one that the run pushed
StartStashes == {<<>>, <<"old">>}

Repo(gitDir, relation, sameAsOrigin, staged, unstaged, untracked, conflicting, stash) ==
    [gitDir |-> gitDir, relation |-> relation, sameAsOrigin |-> sameAsOrigin,
     staged |-> staged, unstaged |-> unstaged, untracked |-> untracked,
     conflicting |-> conflicting, unmerged |-> FALSE, stash |-> stash]

\* the repositories a run can start with
StartRepos ==
    {Repo(TRUE, r, o, s, u, n, c, st) :
        r \in Relations \ {"unborn"}, o \in BOOLEAN, s \in BOOLEAN, u \in BOOLEAN,
        n \in BOOLEAN, c \in BOOLEAN, st \in StartStashes}
    \cup {Repo(g, "unborn", FALSE, FALSE, FALSE, n, FALSE, <<>>) :
            g \in BOOLEAN, n \in BOOLEAN}

GhStates == {"ok", "no repository", "no gh", "not authenticated"}

Running(pc, dryRun) ==
    [pc |-> pc, dryRun |-> dryRun, hasLocalChanges |-> FALSE, isBehind |-> FALSE,
     stashCreated |-> FALSE, log |-> <<>>, outcome |-> "running"]

\* one git command run through runGitCommand: its name, whether it returned
\* nil, and for the stash commands the entry pushed or popped
Cmd(name, ok) == [cmd |-> name, ok |-> ok, entry |-> "none"]
StashCmd(name, ok, entry) == [cmd |-> name, ok |-> ok, entry |-> entry]

Logged(c) == [sync EXCEPT !.log = Append(@, c)]
\* the command returns with this outcome
Finished(run, outcome) == [run EXCEPT !.pc = "done", !.outcome = outcome]

\* src/main.go:2285 hasLocalChanges
hasLocalChanges(r) == r.staged \/ r.unstaged \/ r.untracked

\* src/main.go:2320 isBehindUpstream with the hashes always reported different
isBehindUpstreamAlways(r) == TRUE

\* src/main.go:2320 isBehindUpstream: localHash != upstreamHash
isBehindUpstream(r) == ~r.sameAsOrigin

\* a hasMergeConflicts that never finds a conflicted file
hasMergeConflictsNever(r) == FALSE

\* src/main.go:2343 hasMergeConflicts
hasMergeConflicts(r) == r.unmerged

SyncIdle ==
    /\ repo = Repo(FALSE, "unborn", FALSE, FALSE, FALSE, FALSE, FALSE, <<>>)
    /\ repoAtStart = repo
    /\ gh = "ok"
    /\ sync = Running("idle", FALSE)

SyncInit ==
    /\ repo \in StartRepos
    /\ repoAtStart = repo
    /\ gh \in GhStates
    /\ sync \in {Running("start", d) : d \in BOOLEAN}

SyncFrame == UNCHANGED <<repoAtStart, gh, system, eligVars, tmplVars, cfgVars, scanVars, deployVars>>

\* src/main.go:2076-2125: the preconditions, git init and remote add when
\* .git is missing, and the dry-run report
SyncStart ==
    /\ sync.pc = "start"
    /\ \E initOk \in BOOLEAN, remoteOk \in BOOLEAN :
        IF gh # "ok" THEN
            /\ sync' = Finished(sync, gh)
            /\ UNCHANGED repo
        ELSE IF sync.dryRun THEN
            /\ sync' = Finished(sync, "dry run")
            /\ UNCHANGED repo
        ELSE IF repo.gitDir THEN
            /\ sync' = [sync EXCEPT !.pc = "fetch"]
            /\ UNCHANGED repo
        ELSE IF ~initOk THEN
            /\ sync' = Finished(Logged(Cmd("init", FALSE)), "init failed")
            /\ UNCHANGED repo
        ELSE
            /\ repo' = [repo EXCEPT !.gitDir = TRUE]
            /\ sync' = IF remoteOk
                       THEN [sync EXCEPT !.pc = "fetch",
                                         !.log = @ \o <<Cmd("init", TRUE), Cmd("remote add", TRUE)>>]
                       ELSE Finished([sync EXCEPT
                                         !.log = @ \o <<Cmd("init", TRUE), Cmd("remote add", FALSE)>>],
                                     "remote add failed")
    /\ SyncFrame

\* step 1, src/main.go:2131: git fetch origin <branch>
Fetch ==
    /\ sync.pc = "fetch"
    /\ \E ok \in BOOLEAN :
        IF ok THEN
            /\ repo' = [repo EXCEPT !.sameAsOrigin = (repo.relation = "equal")]
            /\ sync' = [Logged(Cmd("fetch", TRUE)) EXCEPT !.pc = "status"]
        ELSE
            /\ sync' = Finished(Logged(Cmd("fetch", FALSE)), "fetch failed")
            /\ UNCHANGED repo
    /\ SyncFrame

\* steps 2 and 3, src/main.go:2136-2145: hasLocalChanges and isBehindUpstream;
\* git rev-parse HEAD fails in a repository without a commit
CheckStatus ==
    /\ sync.pc = "status"
    /\ \E statusOk \in BOOLEAN, upstreamOk \in BOOLEAN :
        /\ upstreamOk => repo.relation # "unborn"
        /\ sync' =
            IF ~statusOk THEN Finished(sync, "status failed")
            ELSE IF ~upstreamOk
            THEN Finished([sync EXCEPT !.hasLocalChanges = hasLocalChanges(repo)],
                          "upstream failed")
            ELSE [sync EXCEPT !.hasLocalChanges = hasLocalChanges(repo),
                              !.isBehind = isBehindUpstream(repo),
                              !.pc = IF hasLocalChanges(repo) /\ isBehindUpstream(repo)
                                     THEN "stash"
                                     ELSE IF isBehindUpstream(repo) THEN "pull" ELSE "add"]
    /\ UNCHANGED repo
    /\ SyncFrame

\* step 4, src/main.go:2150-2156: git stash push; it saves staged and
\* unstaged changes, and with only untracked files it saves nothing and still
\* returns nil
StashPush ==
    /\ sync.pc = "stash"
    /\ \E ok \in BOOLEAN :
        IF ~ok THEN
            /\ sync' = Finished(Logged(StashCmd("stash push", FALSE, "none")), "stash failed")
            /\ UNCHANGED repo
        ELSE IF repo.staged \/ repo.unstaged THEN
            /\ repo' = [repo EXCEPT !.staged = FALSE, !.unstaged = FALSE,
                                    !.stash = <<"run">> \o @]
            /\ sync' = [Logged(StashCmd("stash push", TRUE, "run")) EXCEPT
                            !.stashCreated = TRUE, !.pc = "pull"]
        ELSE
            /\ sync' = [Logged(StashCmd("stash push", TRUE, "none")) EXCEPT
                            !.stashCreated = TRUE, !.pc = "pull"]
            /\ UNCHANGED repo
    /\ SyncFrame

\* the branch after a successful git pull origin <branch>
Pulled(relation) ==
    CASE relation = "behind" -> "equal"
      [] relation = "diverged" -> "ahead"
      [] OTHER -> relation

\* step 5, src/main.go:2159-2170: git pull origin <branch>; it cannot succeed
\* when an untracked file stands in the way of an incoming one
Pull ==
    /\ sync.pc = "pull"
    /\ \E ok \in BOOLEAN :
        /\ ok => ~(/\ repo.untracked /\ repo.conflicting
                   /\ repo.relation \in {"behind", "diverged"})
        /\ IF ok THEN
              /\ repo' = [repo EXCEPT !.relation = Pulled(@),
                                      !.sameAsOrigin = (Pulled(repo.relation) = "equal")]
              /\ sync' = [Logged(Cmd("pull", TRUE)) EXCEPT
                              !.pc = IF sync.stashCreated THEN "pop" ELSE "add"]
           ELSE
              /\ sync' = IF sync.stashCreated
                         THEN [Logged(Cmd("pull", FALSE)) EXCEPT !.pc = "restore"]
                         ELSE Finished(Logged(Cmd("pull", FALSE)), "pull failed")
              /\ UNCHANGED repo
    /\ SyncFrame

\* git stash pop can succeed when there is an entry and the changes it
\* holds do not collide with what the pull brought
CanPop(r) == r.stash # <<>> /\ ~r.conflicting

\* the repository after git stash pop: the newest entry is applied and
\* dropped, or it collides and stays with unmerged files left, or nothing
\* happens
Popped(r, ok) ==
    IF ok THEN [r EXCEPT !.stash = Tail(@), !.unstaged = TRUE]
    ELSE IF r.stash # <<>> /\ r.conflicting THEN [r EXCEPT !.unmerged = TRUE]
    ELSE r

PoppedEntry(r) == IF r.stash = <<>> THEN "none" ELSE Head(r.stash)

\* src/main.go:2163-2167 with the error of the pop returned when it fails
RestoreReturningPopError ==
    /\ sync.pc = "restore"
    /\ \E ok \in BOOLEAN :
        /\ ok => CanPop(repo)
        /\ repo' = Popped(repo, ok)
        /\ sync' = Finished(Logged(StashCmd("stash pop", ok, PoppedEntry(repo))),
                            IF ok THEN "pull failed" ELSE "pop failed")
    /\ SyncFrame

\* src/main.go:2163-2167: after a failed pull the stash is popped and the
\* pull error returned, whatever the pop did
Restore ==
    /\ sync.pc = "restore"
    /\ \E ok \in BOOLEAN :
        /\ ok => CanPop(repo)
        /\ repo' = Popped(repo, ok)
        /\ sync' = Finished(Logged(StashCmd("stash pop", ok, PoppedEntry(repo))), "pull failed")
    /\ SyncFrame

\* step 6, src/main.go:2173-2186: git stash pop after the pull
StashPop ==
    /\ sync.pc = "pop"
    /\ \E ok \in BOOLEAN :
        /\ ok => CanPop(repo)
        /\ repo' = Popped(repo, ok)
        /\ sync' =
            IF ok THEN [Logged(StashCmd("stash pop", TRUE, PoppedEntry(repo))) EXCEPT !.pc = "add"]
            ELSE Finished(Logged(StashCmd("stash pop", FALSE, PoppedEntry(repo))),
                          IF hasMergeConflicts(Popped(repo, FALSE)) THEN "conflict"
                          ELSE "pop failed")
    /\ SyncFrame

\* steps 7 to 9 without the test of step 8: the commit is always attempted
AddAllThenCommit ==
    /\ sync.pc = "add"
    /\ \E ok \in BOOLEAN :
        IF ~ok THEN
            /\ sync' = Finished(Logged(Cmd("add", FALSE)), "add failed")
            /\ UNCHANGED repo
        ELSE
            /\ repo' = [repo EXCEPT
                          !.staged = repo.staged \/ repo.unstaged \/ repo.untracked,
                          !.unstaged = FALSE, !.untracked = FALSE, !.unmerged = FALSE]
            /\ sync' = [Logged(Cmd("add", TRUE)) EXCEPT !.pc = "commit"]
    /\ SyncFrame

\* steps 7 and 8, src/main.go:2189-2199: git add . and git diff --cached
\* --quiet, which returns nil when nothing is staged
AddAll ==
    /\ sync.pc = "add"
    /\ \E ok \in BOOLEAN :
        IF ~ok THEN
            /\ sync' = Finished(Logged(Cmd("add", FALSE)), "add failed")
            /\ UNCHANGED repo
        ELSE
            /\ repo' = [repo EXCEPT
                          !.staged = repo.staged \/ repo.unstaged \/ repo.untracked,
                          !.unstaged = FALSE, !.untracked = FALSE, !.unmerged = FALSE]
            /\ sync' = IF repo.staged \/ repo.unstaged \/ repo.untracked
                       THEN [Logged(Cmd("add", TRUE)) EXCEPT !.pc = "commit"]
                       ELSE Finished(Logged(Cmd("add", TRUE)), "nothing to sync")
    /\ SyncFrame

\* the branch after a commit on top of HEAD
Committed(relation) ==
    CASE relation = "equal" -> "ahead"
      [] relation = "behind" -> "diverged"
      [] OTHER -> relation

\* step 9, src/main.go:2202-2205: git commit
Commit ==
    /\ sync.pc = "commit"
    /\ \E ok \in BOOLEAN :
        /\ ok => repo.staged
        /\ IF ok THEN
              /\ repo' = [repo EXCEPT !.staged = FALSE, !.relation = Committed(@),
                                      !.sameAsOrigin = FALSE]
              /\ sync' = [Logged(Cmd("commit", TRUE)) EXCEPT !.pc = "push"]
           ELSE
              /\ sync' = Finished(Logged(Cmd("commit", FALSE)), "commit failed")
              /\ UNCHANGED repo
    /\ SyncFrame

\* step 10, src/main.go:2208-2213: git push origin <branch>, accepted when
\* the remote branch is an ancestor of HEAD
Push ==
    /\ sync.pc = "push"
    /\ \E ok \in BOOLEAN :
        /\ ok => repo.relation = "ahead"
        /\ IF ok THEN
              /\ repo' = [repo EXCEPT !.relation = "equal", !.sameAsOrigin = TRUE]
              /\ sync' = Finished(Logged(Cmd("push", TRUE)), "synced")
           ELSE
              /\ sync' = Finished(Logged(Cmd("push", FALSE)), "push failed")
              /\ UNCHANGED repo
    /\ SyncFrame

----------------------------------------------------------------------------
(* Pull.  The dotfiles root, its configuration file and the clone are      *)
(* paths of the file system; git clone and git pull are described by what  *)
(* they leave there.                                                       *)

\* dm.DotfilesDir + ".tmp" (src/main.go:2239)
TempDir == HomeDir \o <<".dotfiles.tmp">>

\* the documents of the pull model: one that names a repository, one that
\* does not, and the one the remote repository holds
ConfiguredDoc == DocWith([k \in {} |-> YStr("")], NoNode, YGitHub("me/dots", "main"))
UnconfiguredDoc == Doc([k \in {} |-> YStr("")])
RemoteDoc == DocWith([k \in {"vim"} |-> YStr("all")], NoNode, YGitHub("me/dots", "main"))

\* what a clone of the remote repository puts at path q
CloneTree(q) ==
    (q :> DirNode) @@ (q \o <<".git">> :> DirNode)
    @@ (q \o <<"dotctl.yaml">> :> FileNode(RemoteDoc))
    @@ (q \o <<"vim">> :> DirNode)

\* git clone <url> p (src/main.go:2240): fails when p exists and is not an
\* empty directory, or when cloneFault (the network, the remote) makes it fail
gitClone(fsys, p, cloneFault) ==
    LET q == LPath(fsys, p)
    IN  IF cloneFault \/ q = NoPath THEN Failed(fsys)
        ELSE IF q \in DOMAIN fsys
                /\ (fsys[q].kind # "dir" \/ \E x \in DOMAIN fsys : IsUnder(x, q))
        THEN Failed(fsys)
        ELSE Done(CloneTree(q) @@ fsys)

\* dm.Config.GitHub as NewDotfilesManager loads it from <root>/dotctl.yaml
\* (src/main.go:1062-1078, loadConfig)
configuredGitHub(fsys) ==
    LET configFile == DotfilesDir \o <<"dotctl.yaml">>
    IN  IF Stat(fsys, configFile) /\ fsys[Resolve(fsys, configFile)].kind = "file"
        THEN LoadFile(fsys[Resolve(fsys, configFile)].content).GitHub
        ELSE NoGitHub

\* the outcome of a pull: whether it returned nil, the file system it leaves
\* and the git commands it ran
Fetched(ok, fsys, git) == [ok |-> ok, fs |-> fsys, git |-> git]

\* src/main.go:2216 pullFromGitHub; ghState is what the two probes of the
\* GitHub CLI find, cloneFault and pullFault make the git command fail
pullFromGitHub(fsys, github, ghState, dryRun, cloneFault, pullFault) ==
    LET moved(cloned) ==
            Only({Fetched(renamed.ok, renamed.fs, <<Cmd("clone", TRUE)>>) :
                    renamed \in {Rename(cloned.fs, TempDir, DotfilesDir)}})
    IN  IF github.nil \/ github.Repository = "" THEN Fetched(FALSE, fsys, <<>>)
        ELSE IF ghState # "ok" THEN Fetched(FALSE, fsys, <<>>)
        ELSE IF ~Stat(fsys, DotfilesDir \o <<".git">>)
        THEN IF dryRun THEN Fetched(TRUE, fsys, <<>>)
             ELSE Only({IF ~cloned.ok THEN Fetched(FALSE, cloned.fs, <<Cmd("clone", FALSE)>>)
                        ELSE moved(cloned) :
                          cloned \in {gitClone(fsys, TempDir, cloneFault)}})
        ELSE IF dryRun THEN Fetched(TRUE, fsys, <<>>)
        ELSE Fetched(~pullFault, fsys, <<Cmd("pull", ~pullFault)>>)

\* every path a run of the pull model can start with
PullTree ==
    (<<>> :> DirNode) @@ (HomeDir :> DirNode) @@ (DotfilesDir :> DirNode)
    @@ (DotfilesDir \o <<"dotctl.yaml">> :> FileNode(ConfiguredDoc))
    @@ (DotfilesDir \o <<".git">> :> DirNode)
    @@ (DotfilesDir \o <<"vim">> :> DirNode)
    @@ (TempDir :> DirNode)
    @@ (TempDir \o <<"vim">> :> DirNode)

\* the start states: the sets of these paths that have the parent of each of
\* their paths, with any of the three configuration files
PullTrees ==
    LET closed == {D \in SUBSET DOMAIN PullTree :
                      /\ {<<>>, HomeDir} \subseteq D
                      /\ \A x \in D : x # <<>> => Dir(x) \in D}
    IN  {[x \in D |-> IF x = DotfilesDir \o <<"dotctl.yaml">> THEN FileNode(doc)
                      ELSE PullTree[x]] :
            D \in closed, doc \in {ConfiguredDoc, UnconfiguredDoc, Corrupt}}

PullInit ==
    /\ fs \in PullTrees
    /\ fsBefore = fs
    /\ deployConfig = <<>>
    /\ lastOp = NoOp
    /\ prevOp = NoOp
    /\ opCount = 0

\* dotctl pull (src/main.go:2699-2703)
PullCommand ==
    \E ghState \in GhStates \ {"no repository"}, dryRun \in BOOLEAN, cloneFault \in BOOLEAN,
       pullFault \in BOOLEAN :
        \E result \in {pullFromGitHub(fs, configuredGitHub(fs), ghState, dryRun,
                                      cloneFault, pullFault)} :
            /\ opCount < MaxOps
            /\ fs' = result.fs
            /\ fsBefore' = fs
            /\ prevOp' = lastOp
            /\ lastOp' = [op |-> "pull", pkg |-> <<>>, dryRun |-> dryRun, ok |-> result.ok,
                          exit |-> ExitOnError(result.ok), git |-> result.git]
            /\ opCount' = opCount + 1
            /\ UNCHANGED <<deployConfig, system, eligVars, tmplVars, cfgVars, scanVars, syncVars>>

----------------------------------------------------------------------------
(* Specifications *)

EligSpecInit == system \in DetectedSystems /\ EligInit /\ TmplIdle /\ CfgIdle /\ ScanIdle /\ DeployIdle /\ SyncIdle
EligNext == CheckEligibility \/ CheckCondition
SpecElig == EligSpecInit /\ [][EligNext]_vars

TmplSpecInit == system \in DetectedSystems /\ TmplInit /\ EligIdle /\ CfgIdle /\ ScanIdle /\ DeployIdle /\ SyncIdle
TmplNext == ExpandTemplate
SpecTemplate == TmplSpecInit /\ [][TmplNext]_vars

CfgSpecInit == system \in CfgSystems /\ CfgInit /\ EligIdle /\ TmplIdle /\ ScanIdle /\ DeployIdle /\ SyncIdle
CfgNext == CfgStartup \/ CfgAdd \/ CfgRemove \/ ReadOnlyCommand
SpecConfig == CfgSpecInit /\ [][CfgNext]_vars

\* every command that writes the configuration, with fewer tags to add
StoreSpecInit ==
    /\ system \in CfgSystems /\ CfgInit
    /\ EligIdle /\ TmplIdle /\ ScanIdle /\ DeployIdle /\ SyncIdle
StoreNext ==
    \/ CfgStartup
    \/ StoreAdd
    \/ CfgRemove
    \/ CfgGitHubRepo
    \/ CfgInitialize
    \/ CfgAdopt
    \/ ReadOnlyCommand
SpecStore == StoreSpecInit /\ [][StoreNext]_vars

ScanSpecInit ==
    /\ system \in {"linux"} /\ ScanInit
    /\ EligIdle /\ TmplIdle /\ CfgIdle /\ DeployIdle /\ SyncIdle
ScanNext == ScanPackages
SpecScan == ScanSpecInit /\ [][ScanNext]_vars

DeploySpecInit ==
    /\ system \in {"arch", "macos"} /\ DeployInit
    /\ EligIdle /\ TmplIdle /\ CfgIdle /\ ScanIdle /\ SyncIdle
DeployNext == Deploy \/ Undeploy
SpecDeploy == DeploySpecInit /\ [][DeployNext]_vars

BulkSpecInit ==
    /\ system \in {"arch", "macos"} /\ BulkInit
    /\ EligIdle /\ TmplIdle /\ CfgIdle /\ ScanIdle /\ SyncIdle
BulkNext == DeployAll \/ UndeployAll
SpecBulk == BulkSpecInit /\ [][BulkNext]_vars

SyncSpecInit ==
    /\ system \in {"linux"} /\ SyncInit
    /\ EligIdle /\ TmplIdle /\ CfgIdle /\ ScanIdle /\ DeployIdle
SyncNext ==
    \/ SyncStart \/ Fetch \/ CheckStatus \/ StashPush \/ Pull \/ Restore
    \/ StashPop \/ AddAll \/ Commit \/ Push
SpecSync == SyncSpecInit /\ [][SyncNext]_vars

PullSpecInit ==
    /\ system \in {"arch"} /\ PullInit
    /\ EligIdle /\ TmplIdle /\ CfgIdle /\ ScanIdle /\ SyncIdle
PullNext == PullCommand
SpecPull == PullSpecInit /\ [][PullNext]_vars

AdoptSpecInit ==
    /\ system \in {"arch"} /\ AdoptInit
    /\ EligIdle /\ TmplIdle /\ CfgIdle /\ ScanIdle /\ SyncIdle
AdoptNext == Adopt
SpecAdopt == AdoptSpecInit /\ [][AdoptNext]_vars

----------------------------------------------------------------------------
(* Claims about package eligibility, checked under SpecElig                *)

LinuxFamily == {"linux", "arch", "ubuntu", "debian", "fedora"}

IsStructured(c) == c.kind = "map"
HasSystemsList(c) ==
    /\ IsStructured(c)
    /\ "systems" \in DOMAIN c.fields
    /\ c.fields["systems"].kind = "[]interface{}"
SystemsList(c) == c.fields["systems"].elems

C2_OpenDefault ==
    (/\ eligPc = "done"
     /\ IsStructured(packageConfig)
     /\ \/ "systems" \notin DOMAIN packageConfig.fields
        \/ (HasSystemsList(packageConfig) /\ Len(SystemsList(packageConfig)) = 0))
    => deployable

----------------------------------------------------------------------------
(* Claims about template expansion, checked under SpecTemplate             *)

LineKind(t, i) == Catalogue[t[i]].kind

\* the kinds of the marker lines of t, in order
MarkerKinds(t) ==
    SelectSeq([i \in 1..Len(t) |-> LineKind(t, i)], LAMBDA k : k # "text")

\* zero or more non-nested open/close pairs
WellFormed(t) ==
    LET m == MarkerKinds(t)
    IN  /\ Len(m) % 2 = 0
        /\ \A k \in 1..Len(m) : m[k] = IF k % 2 = 1 THEN "open" ELSE "close"

\* the open marker whose block line i lies in, 0 when it lies in none
EnclosingOpen(t, i) ==
    LET opens == {j \in 1..(i - 1) :
                    /\ LineKind(t, j) = "open"
                    /\ \A k \in (j + 1)..(i - 1) : LineKind(t, k) # "close"}
    IN  IF opens = {} THEN 0 ELSE CHOOSE j \in opens : \A k \in opens : k <= j

ConditionHolds(cond, sys) == cond = sys \/ (cond = "linux" /\ sys \in LinuxFamily)

\* line i is text outside every block or inside a block whose condition holds
KeptLine(t, i, sys) ==
    /\ LineKind(t, i) = "text"
    /\ \/ EnclosingOpen(t, i) = 0
       \/ ConditionHolds(Catalogue[t[EnclosingOpen(t, i)]].cond, sys)

\* the kept lines of t, unmodified and in order, joined by newlines
ExpectedExpansion(t, sys) ==
    LET idx == SelectSeq([i \in 1..Len(t) |-> i], LAMBDA i : KeptLine(t, i, sys))
    IN  Join([k \in 1..Len(idx) |-> Catalogue[t[idx[k]]].text])

\* C5: for a template of zero or more non-nested open/close pairs, expansion
\* emits exactly the lines outside every block or inside a block whose
\* condition matches the system, unmodified and in order, and no marker line;
\* text without markers is returned unchanged.
C5_Expansion ==
    (tmplPc = "done" /\ WellFormed(template)) =>
        /\ expanded = ExpectedExpansion(template, system)
        /\ (\A i \in 1..Len(template) : LineKind(template, i) = "text")
              => expanded = Content(template)

C5_Witness ==
    /\ tmplPc = "done"
    /\ template = <<1, 3, 1, 5>>
    /\ system = "macos"
    /\ expanded = <<" ", "b">>

----------------------------------------------------------------------------
(* Claims about the configuration store, checked under SpecConfig and      *)
(* SpecStore                                                               *)

\* C4: after add(p, tags) and a reload of the configuration from disk, the
\* entry of p is eligible for exactly the systems named in tags, and for every
\* system when tags is empty or contains "all".
C4_AddRoundTrip ==
    (cfgPc = "loaded" /\ lastCmd.op = "add" /\ lastCmd.ok) =>
        /\ lastCmd.pkg \in DOMAIN Config.Packages
        /\ \A S \in DetectedSystems :
              shouldDeployPackage(Config.Packages[lastCmd.pkg], S)
              <=> \/ Len(lastCmd.tags) = 0
                  \/ "all" \in Range(lastCmd.tags)
                  \/ S \in Range(lastCmd.tags)

C4_Witness ==
    /\ cfgPc = "loaded"
    /\ lastCmd = Command("add", "vim", <<"arch", "freebsd">>, FALSE, TRUE)
    /\ Config.Packages["vim"] =
          Map(SystemsField(IfaceSlice(<<String("arch"), String("freebsd")>>)))

\* the configuration file the next process would load, and the package map
\* it would read from it
FilePicked(yaml, json) ==
    IF yaml.st = "absent" /\ json.st # "absent" THEN json ELSE yaml
ReadBack(yaml, json) ==
    IF FilePicked(yaml, json).st = "doc"
    THEN UnmarshalPackages(FilePicked(yaml, json).packages)
    ELSE EmptyPackages
\* a package map in memory as it reads after a round trip through YAML
Normalised(pk) == UnmarshalPackages(MarshalPackages(pk))

\* C16: when the configuration file exists but cannot be parsed, load returns
\* the built-in default document without failing, and a following add or init
\* that succeeds leaves a parsable configuration file on disk.
C16_Repair ==
    /\ (cfgPc = "loaded" /\ loadLog.parseError) => Config = defaultConfig
    /\ (cfgPc = "exited" /\ loadLog.parseError /\ lastCmd.op \in {"add", "init"}
            /\ lastCmd.ok /\ ~lastCmd.dryRun)
          => FilePicked(yamlFile, jsonFile).st = "doc"

\* C17: a load that finds only the JSON file (and whose write and removal
\* succeed) leaves a YAML file with the packages, exclusion list and remote
\* descriptor of the JSON document, no JSON file, and returns the document
\* read from the YAML file; loadConfig is entered at most twice; the next
\* load changes no file and returns the same document.
C17_Migration ==
    [][ (cfgPc = "exited" /\ cfgPc' = "loaded") =>
          /\ loadLog'.calls <= 2
          /\ (yamlFile = Absent /\ jsonFile.st = "doc"
                  /\ loadLog'.migration = "saved" /\ loadLog'.removed)
                => /\ yamlFile'.st = "doc"
                   /\ yamlFile'.packages = jsonFile.packages
                   /\ jsonFile.excludes # NoNode => yamlFile'.excludes = jsonFile.excludes
                   /\ yamlFile'.github = jsonFile.github
                   /\ jsonFile' = Absent
                   /\ Config' = Parsed(yamlFile')
          /\ (loadLog.migration = "saved" /\ loadLog.removed /\ lastCmd.op = "status")
                => /\ UNCHANGED <<yamlFile, jsonFile>>
                   /\ Config' = Config
                   /\ loadLog'.calls = 1 ]_vars

C17_Witness ==
    /\ cfgPc = "loaded"
    /\ loadLog = Loaded(2, FALSE, "saved", TRUE)
    /\ jsonFile = Absent
    /\ yamlFile = DocWith([k \in {"tmux"} |-> YStr("arch")], YSeq(<<YStr(".git")>>),
                          YGitHub("me/dots", "dev"))
    /\ Config.GitHub = GitHub("me/dots", "dev")

\* C18: after an add, remove, adopt or github-repo command that succeeded
\* (in a process whose load did not fail to migrate), the package map read
\* back from the configuration file equals the map in memory; add has set the
\* entry of its package, remove has deleted it; remove of an unregistered
\* name succeeds and writes nothing.
C18_Persisted ==
    [][ (cfgPc = "loaded" /\ cfgPc' = "exited"
            /\ lastCmd'.op \in {"add", "remove", "adopt", "github-repo"}) =>
          /\ (lastCmd'.ok /\ loadLog.migration # "failed") =>
                /\ ReadBack(yamlFile', jsonFile') = Normalised(Config'.Packages)
                /\ lastCmd'.op = "add" =>
                      /\ lastCmd'.pkg \in DOMAIN ReadBack(yamlFile', jsonFile')
                      /\ ReadBack(yamlFile', jsonFile')[lastCmd'.pkg]
                            = Unmarshal(Marshal(AddedEntry(lastCmd'.tags)))
                /\ lastCmd'.op = "remove" =>
                      lastCmd'.pkg \notin DOMAIN ReadBack(yamlFile', jsonFile')
          /\ (lastCmd'.op = "remove" /\ lastCmd'.pkg \notin DOMAIN Config.Packages) =>
                /\ lastCmd'.ok
                /\ UNCHANGED <<yamlFile, jsonFile>> ]_vars

C18_Witness ==
    /\ cfgPc = "exited"
    /\ lastCmd.op = "adopt" /\ lastCmd.ok /\ ~lastCmd.dryRun
    /\ yamlFile.st = "doc"
    /\ DOMAIN yamlFile.packages = {"vim", "tmux"}
    /\ yamlFile.packages["tmux"] = YStr("arch")
    /\ yamlFile.packages["vim"] = YMapping([f \in {"systems"} |-> YSeq(<<YStr("arch")>>)])

----------------------------------------------------------------------------
(* Claims about the package scanner, checked under SpecScan                *)

\* the skip-list: .git, the configuration file, __pycache__, names ending in
\* .tmp
OnSkipList(n) == n \in {".git", "dotctl.json", "__pycache__", "x.tmp"}

----------------------------------------------------------------------------
(* Claims about deployment, checked under SpecDeploy                       *)

SourceDir(name) == DotfilesDir \o name

HasHomeFlag(name) ==
    /\ name \in DOMAIN deployConfig
    /\ deployConfig[name].kind = "map"
    /\ "home" \in DOMAIN deployConfig[name].fields
    /\ deployConfig[name].fields["home"] = Bool(TRUE)

BeginsWithDot(name) == name \in {<<".vim">>, <<".config", "vim">>}

\* the destination of a package deployed as one symlink: ~/NAME with the
\* home flag or a leading dot, ~/.config/NAME otherwise
Destination(name) ==
    IF HasHomeFlag(name) \/ BeginsWithDot(name) THEN HomeDir \o name
    ELSE HomeDir \o <<".config">> \o name

\* the package named "shell" without the home flag is deployed file by file
FileByFile(name) == name = <<"shell">> /\ ~HasHomeFlag(name)

IsDirectory(fsys, p) == Stat(fsys, p) /\ fsys[Resolve(fsys, p)].kind = "dir"

IsSymlink(fsys, p) == Lstat(fsys, p) /\ fsys[LPath(fsys, p)].kind = "link"

\* the tree at and under p is the same in both file systems
SameTree(f, g, p) ==
    \A x \in DOMAIN f \cup DOMAIN g :
        (x = p \/ IsUnder(x, p)) => (x \in DOMAIN f /\ x \in DOMAIN g /\ f[x] = g[x])

RealDeploy(o) == o.op = "deploy" /\ o.ok /\ ~o.dryRun

\* C7: for a package deployed as one symlink whose source directory exists,
\* after a successful deploy the destination is a symlink that resolves to
\* the source directory, and after a following undeploy the destination no
\* longer exists and the source directory and its content are as they were.
C7_RoundTrip ==
    /\ (/\ RealDeploy(lastOp)
        /\ ~FileByFile(lastOp.pkg)
        /\ IsDirectory(fsBefore, SourceDir(lastOp.pkg)))
       => /\ IsSymlink(fs, Destination(lastOp.pkg))
          /\ Resolve(fs, Destination(lastOp.pkg)) = Resolve(fs, SourceDir(lastOp.pkg))
    /\ (/\ lastOp.op = "undeploy" /\ lastOp.ok /\ ~lastOp.dryRun
        /\ RealDeploy(prevOp)
        /\ prevOp.pkg = lastOp.pkg
        /\ ~FileByFile(lastOp.pkg))
       => /\ ~Lstat(fs, Destination(lastOp.pkg))
          /\ SameTree(fsBefore, fs, SourceDir(lastOp.pkg))

\* the home-directory paths the "shell" package is deployed to: one for every
\* direct file of its source directory
ShellDestinations(fsys) ==
    IF IsDirectory(fsys, SourceDir(<<"shell">>))
    THEN {HomeDir \o <<".zshrc">>, HomeDir \o <<".bashrc">>}
    ELSE {}

NothingAtDestination(fsys, name) ==
    IF FileByFile(name) THEN \A p \in ShellDestinations(fsys) : ~Lstat(fsys, p)
    ELSE ~Lstat(fsys, Destination(name))

\* C8: undeploy of a package with nothing at its destination reports success
\* and changes nothing, for every package name, "shell" and packages without
\* a source directory included.
C8_NeverDeployed ==
    (lastOp.op = "undeploy" /\ NothingAtDestination(fsBefore, lastOp.pkg))
        => (lastOp.ok /\ fs = fsBefore)

\* C24: the destination is a function of the package name and its home flag:
\* after a successful deploy ~/NAME is a symlink when the entry has the home
\* flag or the name begins with a dot and ~/.config/NAME is one otherwise,
\* except that "shell" is deployed file by file whatever its home flag (a
\* symlink per plain file, a written file per template, nothing at ~/shell);
\* a successful undeploy leaves nothing at the destinations deploy uses.
C24_Destination ==
    /\ (RealDeploy(lastOp) /\ lastOp.pkg # <<"shell">>)
       => IsSymlink(fs, Destination(lastOp.pkg))
    /\ (RealDeploy(lastOp) /\ lastOp.pkg = <<"shell">>)
       => /\ IsSymlink(fs, HomeDir \o <<".zshrc">>)
          /\ Lstat(fs, HomeDir \o <<".bashrc">>)
          /\ fs[HomeDir \o <<".bashrc">>].kind = "file"
          /\ SameTree(fsBefore, fs, HomeDir \o <<"shell">>)
    /\ (lastOp.op = "undeploy" /\ lastOp.ok /\ ~lastOp.dryRun /\ lastOp.pkg # <<"shell">>)
       => ~Lstat(fs, Destination(lastOp.pkg))
    /\ (lastOp.op = "undeploy" /\ lastOp.ok /\ ~lastOp.dryRun /\ lastOp.pkg = <<"shell">>)
       => /\ \A p \in ShellDestinations(fsBefore) : ~Lstat(fs, p)
          /\ SameTree(fsBefore, fs, HomeDir \o <<"shell">>)

\* C27: every path an undeploy removes was a symbolic link: a regular file
\* or a real directory is never removed by undeploy.
C27_OnlySymlinks ==
    lastOp.op = "undeploy"
    => \A x \in DOMAIN fsBefore \ DOMAIN fs : fsBefore[x].kind = "link"

\* C29: a deploy that returns an error leaves the destination as it was
\* before the call; a symlink that was at the destination is still there.
C29_FailedDeploy ==
    (lastOp.op = "deploy" /\ ~lastOp.ok /\ ~FileByFile(lastOp.pkg))
    => SameTree(fsBefore, fs, Destination(lastOp.pkg))

\* C30: after a successful deploy of "shell" followed by a successful
\* undeploy of "shell" nothing is left at the paths the deploy created (the
\* symlink of each plain file and the file written from each template), and
\* no other path has been removed.
C30_ShellRoundTrip ==
    (/\ lastOp.op = "undeploy" /\ lastOp.ok /\ ~lastOp.dryRun
     /\ RealDeploy(prevOp)
     /\ prevOp.pkg = <<"shell">> /\ lastOp.pkg = <<"shell">>
     /\ FileByFile(<<"shell">>))
    => /\ \A p \in ShellDestinations(fsBefore) : ~Lstat(fs, p)
       /\ DOMAIN fsBefore \ DOMAIN fs \subseteq ShellDestinations(fsBefore)

----------------------------------------------------------------------------
(* Claims about sync, checked under SpecSync                               *)

Ran_(name) == \E i \in 1..Len(sync.log) : sync.log[i].cmd = name

\* the run started in a repository whose HEAD is the commit of the branch
\* on the remote and whose tree has no staged, unstaged or untracked change
StartedInSync ==
    /\ repoAtStart.gitDir
    /\ repoAtStart.relation = "equal"
    /\ ~repoAtStart.staged /\ ~repoAtStart.unstaged /\ ~repoAtStart.untracked

RunsOf(name) == {i \in 1..Len(sync.log) : sync.log[i].cmd = name}

\* DIRTY: staged, unstaged or untracked changes; BEHIND: the local HEAD is
\* not the commit of the branch on the remote
Dirty == repoAtStart.staged \/ repoAtStart.unstaged \/ repoAtStart.untracked
Behind == repoAtStart.relation # "equal"

\* the run pushed an entry on the stash
StashWasCreated == \E i \in RunsOf("stash push") : sync.log[i].entry = "run"

\* the run is over, it got past its fetch and status checks, and neither its
\* stash push nor its pull failed
PastPull ==
    /\ sync.pc = "done" /\ ~sync.dryRun
    /\ Cmd("fetch", TRUE) \in Range(sync.log)
    /\ sync.outcome \notin {"status failed", "upstream failed"}
    /\ \A i \in RunsOf("stash push") \cup RunsOf("pull") : sync.log[i].ok

\* C19: in a sync run a stash is created exactly when the tree is DIRTY and
\* the branch is BEHIND, and it is created before the pull; a pull is run
\* exactly when BEHIND.
C19_StashAndPull ==
    PastPull =>
        /\ StashWasCreated <=> (Dirty /\ Behind)
        /\ \A i \in RunsOf("stash push"), j \in RunsOf("pull") : i < j
        /\ Ran_("pull") <=> Behind

\* C20: when the pull of a sync fails, sync returns the pull error and runs
\* no add, commit or push; if the run stashed, a stash pop is run exactly
\* once, after the pull and before the return, and whether it fails or not
\* the error returned is the pull error.
C20_PullFailure ==
    (sync.pc = "done" /\ Cmd("pull", FALSE) \in Range(sync.log))
        => /\ sync.outcome = "pull failed"
           /\ ~Ran_("add") /\ ~Ran_("commit") /\ ~Ran_("push")
           /\ sync.stashCreated
                 => /\ Cardinality(RunsOf("stash pop")) = 1
                    /\ RunsOf("stash pop") = {Len(sync.log)}
                    /\ RunsOf("pull") = {Len(sync.log) - 1}
           /\ ~sync.stashCreated => RunsOf("stash pop") = {}

C20_Witness ==
    /\ sync.pc = "done"
    /\ Cmd("pull", FALSE) \in Range(sync.log)
    /\ sync.stashCreated
    /\ sync.log[Len(sync.log)] = StashCmd("stash pop", FALSE, "run")
    /\ sync.outcome = "pull failed"

\* C21: when the stash pop after a successful pull fails, the run ends
\* there with an error, without add, commit or push: with the conflict
\* outcome when git lists unmerged files, with the generic pop error
\* otherwise.
C21_PopFailure ==
    (/\ sync.pc = "done"
     /\ \E i \in RunsOf("stash pop") :
           /\ ~sync.log[i].ok
           /\ i > 1 /\ sync.log[i - 1] = Cmd("pull", TRUE))
    => /\ sync.outcome \in {"conflict", "pop failed"}
       /\ sync.outcome = "conflict" <=> repo.unmerged
       /\ RunsOf("stash pop") = {Len(sync.log)}
       /\ ~Ran_("add") /\ ~Ran_("commit") /\ ~Ran_("push")

C21_Witness ==
    /\ sync.pc = "done"
    /\ sync.outcome = "conflict"
    /\ Len(sync.log) = 4
    /\ sync.log[3] = Cmd("pull", TRUE)
    /\ sync.log[4] = StashCmd("stash pop", FALSE, "run")
    /\ repo.stash = <<"run">>

\* C22: a sync that is not a dry run and finds no .git directory only runs
\* git init and git remote add; it runs no fetch, stash, pull, commit or push.
C22_FirstRun ==
    (~sync.dryRun /\ gh = "ok" /\ ~repoAtStart.gitDir)
    => \A i \in 1..Len(sync.log) : sync.log[i].cmd \in {"init", "remote add"}

\* the place of a git command in the order of a sync run
Step(name) ==
    CASE name = "init" -> 1 [] name = "remote add" -> 2 [] name = "fetch" -> 3
      [] name = "stash push" -> 4 [] name = "pull" -> 5 [] name = "stash pop" -> 6
      [] name = "add" -> 7 [] name = "commit" -> 8 [] name = "push" -> 9

C28_OwnStash ==
    \A i \in RunsOf("stash pop") : sync.log[i].entry # "old"

----------------------------------------------------------------------------
(* Claims about the commands' side effects and exit codes, checked under   *)
(* SpecDeploy                                                              *)

\* C12: with the dry-run flag set a command mutates nothing: no file,
\* directory or symlink is created, removed, moved or written.
C12_DryRun == lastOp.dryRun => fs = fsBefore

\* C13: a command that reports an error exits with code 1 and a command that
\* reports none exits with code 0; deploy or undeploy of one named package
\* that fails exits non-zero.
C13_ExitCode == lastOp.op # "none" => (lastOp.exit = 0 <=> lastOp.ok)

----------------------------------------------------------------------------
(* Claims about the bulk commands, checked under SpecBulk                  *)

\* the list a bulk command works on: the one it is given, or when that is
\* empty the configured packages eligible for the current system, each
\* once, in lexicographic order
IsListOf(o, list) ==
    IF o.list # <<>> THEN list = o.list
    ELSE /\ \A i \in 1..Len(list) :
               /\ list[i] \in DOMAIN deployConfig
               /\ shouldDeployPackage(deployConfig[list[i]], system)
         /\ \A n \in DOMAIN deployConfig :
               shouldDeployPackage(deployConfig[n], system)
               => \E i \in 1..Len(list) : list[i] = n
         /\ \A i, j \in 1..Len(list) : i < j => NameLess(Head(list[i]), Head(list[j]))

\* the file system after the operation was applied to each package of the
\* list in turn, and whether each application reported no error
RECURSIVE InTurn(_, _, _, _)
InTurn(op, fsys, list, dryRun) ==
    IF list = <<>> THEN [fs |-> fsys, results |-> <<>>]
    ELSE Only({Only({[fs |-> rest.fs, results |-> <<r.ok>> \o rest.results] :
                     rest \in {InTurn(op, r.fs, Tail(list), dryRun)}}) :
               r \in {IF op = "deploy all"
                      THEN deployPackage(fsys, deployConfig, Head(list), dryRun, system)
                      ELSE undeployPackage(fsys, deployConfig, Head(list), dryRun)}})

\* C25: bulk deploy and bulk undeploy attempt every package of the list
\* once, in list order, whatever the outcome of the packages before it; the
\* success count is the number of packages whose operation returned no
\* error; an empty list stands for the configured packages eligible for the
\* current system in lexicographic order.
C25_Bulk ==
    lastOp.op \in {"deploy all", "undeploy all"}
    => /\ IsListOf(lastOp, lastOp.attempted)
       /\ \E expected \in {InTurn(lastOp.op, fsBefore, lastOp.attempted, lastOp.dryRun)} :
             /\ fs = expected.fs
             /\ lastOp.results = expected.results
       /\ lastOp.successCount
             = Cardinality({i \in 1..Len(lastOp.results) : lastOp.results[i]})

C25_Witness ==
    /\ lastOp.op = "deploy all" /\ ~lastOp.dryRun
    /\ "list" \in DOMAIN lastOp
    /\ lastOp.list = <<>>
    /\ lastOp.attempted = <<<<"shell">>, <<"vim">>>>
    /\ lastOp.results = <<FALSE, TRUE>>
    /\ lastOp.successCount = 1

----------------------------------------------------------------------------
(* Claims about adoption, checked under SpecAdopt                          *)

\* NAME is a real directory in ~/.config that is not registered, the dotfiles
\* root is a directory and has no entry NAME
Adoptable(fsys, packages, n) ==
    /\ Lstat(fsys, ConfigDir \o <<n>>)
    /\ fsys[LPath(fsys, ConfigDir \o <<n>>)].kind = "dir"
    /\ <<n>> \notin DOMAIN packages
    /\ Stat(fsys, DotfilesDir) /\ fsys[Resolve(fsys, DotfilesDir)].kind = "dir"
    /\ ~Lstat(fsys, DotfilesDir \o <<n>>)

\* the directory ~/.config/NAME of before is now <root>/NAME, and
\* ~/.config/NAME is a symbolic link that resolves to it
MovedAndLinked(before, after, n) ==
    /\ \A x \in DOMAIN before :
          (x = ConfigDir \o <<n>> \/ IsUnder(x, ConfigDir \o <<n>>)) =>
             /\ MovedPath(x, ConfigDir \o <<n>>, DotfilesDir \o <<n>>) \in DOMAIN after
             /\ after[MovedPath(x, ConfigDir \o <<n>>, DotfilesDir \o <<n>>)] = before[x]
    /\ ConfigDir \o <<n>> \in DOMAIN after
    /\ after[ConfigDir \o <<n>>].kind = "link"
    /\ Resolve(after, ConfigDir \o <<n>>) = DotfilesDir \o <<n>>

\* C11: when ~/.config/vim is a real directory that is not registered (and
\* the dotfiles root exists and has no vim), adopt vim arch moves the
\* directory to <root>/vim, leaves ~/.config/vim a symlink that resolves
\* there, and registers vim as eligible for "arch" and no other system.
C11_Adopt ==
    (/\ lastOp.op = "adopt" /\ lastOp.args = <<"vim", "arch">>
     /\ ~lastOp.dryRun /\ ~lastOp.symlinkFault
     /\ Adoptable(fsBefore, lastOp.configBefore, "vim"))
    => /\ lastOp.ok
       /\ MovedAndLinked(fsBefore, fs, "vim")
       /\ <<"vim">> \in DOMAIN deployConfig
       /\ \A S \in DetectedSystems :
             shouldDeployPackage(deployConfig[<<"vim">>], S) <=> S = "arch"

C11_Witness ==
    /\ lastOp.op = "adopt" /\ lastOp.args = <<"vim", "arch">>
    /\ ~lastOp.dryRun /\ ~lastOp.symlinkFault
    /\ Adoptable(fsBefore, lastOp.configBefore, "vim")
    /\ ReadFile(fs, ConfigDir \o <<"vim", "init">>) = PlainText
    /\ ReadFile(fs, DotfilesDir \o <<"vim", "init">>) = PlainText
    /\ <<"vim">> \in DOMAIN deployConfig
    /\ deployConfig[<<"vim">>] = String("arch")

\* the candidates of an adopt command include NAME: no package is named, or
\* NAME is the one named
IsCandidate(o, n) == o.args \in {<<>>, <<"arch">>} \/ (o.args # <<>> /\ o.args[1] = n)

RealAdopt(o) == o.op = "adopt" /\ ~o.dryRun

\* C26: adoption registers a package only when its directory was moved into
\* the dotfiles root and the symlink pointing back was made; when the symlink
\* cannot be made and the directory is moved back, ~/.config/NAME is the real
\* directory it was, the dotfiles root has no NAME and NAME is not
\* registered; a candidate that fails does not keep the others from being
\* adopted.
C26_AdoptFailure ==
    \A n \in {"vim", "tmux"} :
        /\ (RealAdopt(lastOp) /\ <<n>> \in DOMAIN deployConfig \ DOMAIN lastOp.configBefore)
           => MovedAndLinked(fsBefore, fs, n)
        /\ (/\ RealAdopt(lastOp) /\ lastOp.symlinkFault
            /\ IsCandidate(lastOp, n)
            /\ Adoptable(fsBefore, lastOp.configBefore, n))
           => /\ SameTree(fsBefore, fs, ConfigDir \o <<n>>)
              /\ ~Lstat(fs, DotfilesDir \o <<n>>)
              /\ <<n>> \notin DOMAIN deployConfig
        /\ (/\ RealAdopt(lastOp) /\ ~lastOp.symlinkFault
            /\ lastOp.args \in {<<>>, <<"arch">>}
            /\ Adoptable(fsBefore, lastOp.configBefore, n))
           => /\ MovedAndLinked(fsBefore, fs, n)
              /\ <<n>> \in DOMAIN deployConfig

\* the symlink of vim could not be made and vim is back in ~/.config; the
\* run went on to the end and saved the configuration
C26_Witness ==
    /\ RealAdopt(lastOp) /\ lastOp.symlinkFault
    /\ lastOp.args = <<"vim">>
    /\ Adoptable(fsBefore, lastOp.configBefore, "vim")
    /\ ReadFile(fs, ConfigDir \o <<"vim", "init">>) = PlainText
    /\ ~Lstat(fsBefore, DotfilesDir \o <<"dotctl.yaml">>)
    /\ Lstat(fs, DotfilesDir \o <<"dotctl.yaml">>)

\* tmux could not be moved because the dotfiles root has a file of that
\* name, and vim, the candidate after it, was adopted
C26_Continued ==
    /\ RealAdopt(lastOp) /\ ~lastOp.symlinkFault /\ lastOp.args = <<>>
    /\ <<"tmux">> \notin DOMAIN lastOp.configBefore
    /\ IsDirectory(fsBefore, ConfigDir \o <<"tmux">>)
    /\ Lstat(fsBefore, DotfilesDir \o <<"tmux">>)
    /\ Adoptable(fsBefore, lastOp.configBefore, "vim")
    /\ lastOp.ok
    /\ <<"tmux">> \notin DOMAIN deployConfig
    /\ <<"vim">> \in DOMAIN deployConfig

\* C14: adopt given several package names takes every one of them as a
\* candidate and none as a system tag: each named directory that can be
\* adopted is moved, linked and registered, for every system.
C14_SeveralNames ==
    (/\ lastOp.op = "adopt" /\ Len(lastOp.args) = 2
     /\ ~lastOp.dryRun /\ ~lastOp.symlinkFault
     /\ \A i \in 1..2 : /\ ~isKnownSystem(lastOp.args[i])
                          /\ Adoptable(fsBefore, lastOp.configBefore, lastOp.args[i]))
    => \A i \in 1..2 :
          /\ MovedAndLinked(fsBefore, fs, lastOp.args[i])
          /\ <<lastOp.args[i]>> \in DOMAIN deployConfig
          /\ \A S \in DetectedSystems :
                shouldDeployPackage(deployConfig[<<lastOp.args[i]>>], S)

----------------------------------------------------------------------------
(* Claims about pull, checked under SpecPull                               *)

\* C15: pull with a configured repository and no VCS metadata under the
\* dotfiles root clones the remote into the temporary path and renames it
\* into place: once the clone has succeeded the command succeeds, the
\* dotfiles root is the clone and no temporary directory remains; when VCS
\* metadata exists pull runs git pull and nothing else.
C15_Pull ==
    (lastOp.op = "pull" /\ ~lastOp.dryRun) =>
        /\ lastOp.git = <<Cmd("clone", TRUE)>> =>
              /\ lastOp.ok
              /\ \A x \in DOMAIN CloneTree(DotfilesDir) :
                    x \in DOMAIN fs /\ fs[x] = CloneTree(DotfilesDir)[x]
              /\ TempDir \notin DOMAIN fs
        /\ (lastOp.git # <<>> /\ Stat(fsBefore, DotfilesDir \o <<".git">>)) =>
              /\ lastOp.git \in {<<Cmd("pull", TRUE)>>, <<Cmd("pull", FALSE)>>}
              /\ fs = fsBefore

====
